---- MODULE Spec2Model ----
(***************************************************************************)
(* Descriptor-to-target attribution of the gender analysis                 *)
(* (analysis/descr_pars.py), its accumulator (analysis/helper.py) and the  *)
(* article loop that drives them (analysis/main.py).                       *)
(*                                                                         *)
(* A paragraph is a sequence of annotated tokens.  A token is a record     *)
(*   pos, dep, head, case, gender, ent, lemma                              *)
(* where head is the index of the syntactic head (the root is its own      *)
(* head, as in spaCy), case is the set morph.get('Case'), gender is the    *)
(* custom extension written by gender_prn (None by default) and ent is     *)
(* ent_type_ ("" when the token is in no entity).                          *)
(***************************************************************************)
EXTENDS Integers, Sequences, FiniteSets, TLC

VARIABLES
    doc,                \* the annotated paragraph being parsed
    idx,                \* parse_descriptors: index of the next token of doc
    pc,                 \* position of the program
    female_descriptors, \* dict shared by every Statistics object of a run
    male_descriptors,   \* dict shared by every Statistics object of a run
    ud_descriptors,     \* dict shared by every Statistics object of a run
    per_dicts,          \* PER.female_per .. ud_per, shared in the same way
    prn_dicts,          \* PRN.female_prn, PRN.male_prn, shared in the same way
    statistics,         \* the fields owned by the current Statistics object
    prev_stats,         \* the fields owned by the Statistics object carried forward
    stats_list,         \* main: one row per processed article
    n,                  \* main: number of articles iterated so far
    pars,               \* analyze: paragraphs of the article still to come
    target,             \* argument of the last obtain_gender_occurrences call
    factors,            \* result of the last obtain_gender_occurrences call
    pattern,            \* branch taken by the last iteration of parse_descriptors
    calls,              \* add_descriptor calls made by the last iteration
    fed,                \* legs passed to add_descriptor since the accumulator was empty
    ents,               \* gender_ner: doc.ents as the component receives them
    new_ents,           \* gender_ner: the list new_ents
    tries,              \* gender_ner: obtain_gender calls made for the current entity
    slept,              \* gender_ner: time.sleep calls made for the current entity
    outcome,            \* gender_ner: what the last obtain_gender call returned or raised
    wpc,                \* per worker: position inside its add_descriptor call
    wtmp,               \* per worker: the value its pending statement has read
    wargs,              \* per worker: the arguments of its add_descriptor call
    raced,              \* locations written while the other worker held a read of them
    walk,               \* a coordination walk taken step by step: tk, new_children, ...
    heap                \* the list objects that hold sentiment sums, and the
                        \* references the fields of Statistics.GLEAN hold to them

\* the variables of gender_ner
ner_vars == <<ents, new_ents, tries, slept, outcome>>

\* the variables of two workers that share one Statistics object
worker_vars == <<wpc, wtmp, wargs, raced>>

aux_vars == <<ner_vars, worker_vars, walk, heap>>

vars == <<doc, idx, pc, female_descriptors, male_descriptors, ud_descriptors,
          per_dicts, prn_dicts, statistics, prev_stats, stats_list, n, pars, target, factors,
          pattern, calls, fed, aux_vars>>

-----------------------------------------------------------------------------
(* Bounds of the model *)

MaxChain == 3
MaxTokens == 3
MaxArticles == 2
MaxPars == 1
MaxCalls == 2
MaxPrn == 2
MaxEnts == 2
MantissaBits == 4

-----------------------------------------------------------------------------
(* Constants of descr_pars.py *)

SVP_DELIMITER == ""

PER_GENDER_MAPPING ==
    [k \in {"PER:M", "PER:F"} |->
        IF k = "PER:M" THEN "PER:männlich" ELSE "PER:weiblich"]

TARGET_POS == {"NOUN", "PROPN"}

\* Python's None (the default of the gender extension, a missing target)
None == "None"

-----------------------------------------------------------------------------
(* Tokens *)

\* entity labels that occur after gender_ner, which keeps the person entities
\* only: "" outside entities and 'PER:' + genderLabel
EntLabels ==
    {"", "PER:weiblich", "PER:männlich", "PER:NA", "PER:AMB",
     "PER:nichtbinär"}

\* str.startswith('PER:') on the labels above
startswith_PER(label) ==
    label \in {"PER:weiblich", "PER:männlich", "PER:NA", "PER:AMB",
               "PER:nichtbinär"}

\* str.lower() on the lemmas that occur
lower(s) ==
    CASE s = "Auf"  -> "auf"
      [] s = "Klug" -> "klug"
      [] OTHER      -> s

Tok(pos, dep, head, case, gender, ent, lemma) ==
    [pos |-> pos, dep |-> dep, head |-> head, case |-> case,
     gender |-> gender, ent |-> ent, lemma |-> lemma]

\* Token.children: the tokens whose head is i, in document order
children(d, i) ==
    {j \in 1..Len(d) : j # i /\ d[j].head = i}

is_nom(t) == "Nom" \in t.case

-----------------------------------------------------------------------------
(* Gender vectors *)

Vec(f, m, ud) == [f |-> f, m |-> m, ud |-> ud]
ZeroVec == Vec(0, 0, 0)
AddVec(a, b) == Vec(a.f + b.f, a.m + b.m, a.ud + b.ud)
IsZero(v) == v.f = 0 /\ v.m = 0 /\ v.ud = 0

-----------------------------------------------------------------------------
(* obtain_gender_occurrences *)

Min(S) == CHOOSE x \in S : \A y \in S : x <= y

\* own_gender with the person label consulted before the gender tag
own_gender_label_first(t) ==
    IF startswith_PER(t.ent)
    THEN IF t.ent = PER_GENDER_MAPPING["PER:F"] THEN Vec(1, 0, 0)
         ELSE IF t.ent = PER_GENDER_MAPPING["PER:M"] THEN Vec(0, 1, 0)
         ELSE IF t.ent = "PER:NA" \/ t.ent = "PER:AMB" THEN Vec(0, 0, 1)
         ELSE ZeroVec
    ELSE IF t.gender = "PRN:F" THEN Vec(1, 0, 0)
    ELSE IF t.gender = "PRN:M" THEN Vec(0, 1, 0)
    ELSE ZeroVec

\* the leg incremented for the starting target t
own_gender(t) ==
    IF t.gender # None
    THEN IF t.gender = "PRN:F" THEN Vec(1, 0, 0)
         ELSE IF t.gender = "PRN:M" THEN Vec(0, 1, 0)
         ELSE ZeroVec
    ELSE IF startswith_PER(t.ent)
    THEN IF t.ent = PER_GENDER_MAPPING["PER:F"] THEN Vec(1, 0, 0)
         ELSE IF t.ent = PER_GENDER_MAPPING["PER:M"] THEN Vec(0, 1, 0)
         ELSE IF t.ent = "PER:NA" \/ t.ent = "PER:AMB" THEN Vec(0, 0, 1)
         ELSE ZeroVec
    ELSE ZeroVec

\* the leg incremented for a followed conjunct c
conjunct_gender(c) ==
    IF c.gender # None
    THEN IF c.gender = "PRN:F" THEN Vec(1, 0, 0)
         ELSE IF c.gender = "PRN:M" THEN Vec(0, 1, 0)
         ELSE ZeroVec
    ELSE IF startswith_PER(c.ent)
    THEN IF c.ent = PER_GENDER_MAPPING["PER:F"] THEN Vec(1, 0, 0)
         ELSE IF c.ent = PER_GENDER_MAPPING["PER:M"] THEN Vec(0, 1, 0)
         ELSE IF c.ent = "PER:NA" \/ c.ent = "PER:AMB" THEN Vec(0, 0, 1)
         ELSE ZeroVec
    ELSE ZeroVec

\* a conjunct that is cut as soon as it carries no gender tag and no
\* recognised person label
new_children_cut_untagged(c) ==
    IF c.gender # None
    THEN c.gender = "PRN:F" \/ c.gender = "PRN:M"
    ELSE startswith_PER(c.ent)
         /\ c.ent \in {PER_GENDER_MAPPING["PER:F"], PER_GENDER_MAPPING["PER:M"],
                       "PER:NA", "PER:AMB"}

\* new_children after a conjunct c was followed: it is reset to False only in
\* the two inner else branches (a gender tag other than PRN:F/PRN:M, a PER:
\* label other than the four known ones)
new_children_after(c) ==
    IF c.gender # None
    THEN c.gender = "PRN:F" \/ c.gender = "PRN:M"
    ELSE IF startswith_PER(c.ent)
    THEN c.ent \in {PER_GENDER_MAPPING["PER:F"], PER_GENDER_MAPPING["PER:M"],
                    "PER:NA", "PER:AMB"}
    ELSE TRUE

\* a conjunct test that asks for the relation only
is_target_conjunct_any_cj(c) == c.dep = "cj"

is_target_conjunct(c) ==
    c.dep = "cj" /\ c.pos \in TARGET_POS /\ is_nom(c)

is_conjunction_link(c) ==
    c.dep = "cd" /\ c.pos = "CCONJ"

\* the child at which the for loop over tk.children breaks (0: the loop ends
\* without a break)
next_target(d, tk) ==
    LET S == {j \in children(d, tk) :
                is_target_conjunct(d[j]) \/ is_conjunction_link(d[j])}
    IN  IF S = {} THEN 0 ELSE Min(S)

\* a walk that increments no leg for the conjuncts of the chain
walk_targets_uncounted(d, tk) == ZeroVec

\* the while loop: what the chain below tk adds to the three legs
RECURSIVE walk_targets(_, _)
walk_targets(d, tk) ==
    LET c == next_target(d, tk)
    IN  IF c = 0 THEN ZeroVec
        ELSE IF is_target_conjunct(d[c])
        THEN IF new_children_after(d[c])
             THEN AddVec(conjunct_gender(d[c]), walk_targets(d, c))
             ELSE conjunct_gender(d[c])
        ELSE walk_targets(d, c)

\* a function that returns at once for a target that sets no leg itself
obtain_gender_occurrences_stop_untagged(d, t) ==
    IF t = 0 THEN ZeroVec
    ELSE IF own_gender(d[t]) = ZeroVec THEN ZeroVec
    ELSE AddVec(own_gender(d[t]), walk_targets(d, t))

\* t = 0 stands for a target of None
obtain_gender_occurrences(d, t) ==
    IF t = 0 THEN ZeroVec
    ELSE AddVec(own_gender(d[t]), walk_targets(d, t))


-----------------------------------------------------------------------------
(* The accumulator: helper.py Statistics, glean.py *)

\* the sentiment lexicon (arousal, valence, imageability, concreteness);
\* sample entries with whole numbers standing for the norm values
glean_norm_values ==
    [l \in {"klug", "schnell", "aufstehen", "laufen"} |->
        CASE l = "klug"      -> <<3, 5, 2, 1>>
          [] l = "schnell"   -> <<4, 3, 3, 2>>
          [] l = "aufstehen" -> <<2, 4, 5, 3>>
          [] l = "laufen"    -> <<5, 4, 6, 4>>]

GLEAN_INIT == <<0, 0, 0, 0>>

DescrKeys == {"DESCR:F", "DESCR:M", "DESCR:NA"}

\* the keys of PER.num_matches_per as helper.py spells them
PerKeys == {"PER:weiblich", "PER:mÃ¤nnlich", "PER:NA", "PER:AMB"}

PrnKeys == {"PRN:F", "PRN:M"}

\* the fields a Statistics object does not share with its predecessor:
\* the default_factory fields of PER, PRN, DESCR and GLEAN, and token_num
NewStatistics ==
    [num_matches_per   |-> [k \in PerKeys |-> 0],
     num_matches_prn   |-> [k \in PrnKeys |-> 0],
     num_matches_descr |-> [k \in DescrKeys |-> 0],
     num_neg           |-> 0,
     female_glean      |-> GLEAN_INIT,
     male_glean        |-> GLEAN_INIT,
     ud_glean          |-> GLEAN_INIT,
     glean_not_found   |-> [k \in DescrKeys |-> 0],
     token_num         |-> 0]

EmptyDict == [k \in {} |-> 0]

\* dict.get(k, 0)
Get(m, k) == IF k \in DOMAIN m THEN m[k] ELSE 0

\* an assignment that builds a new dict holding the assigned key only
Put_replacing(m, k, v) == [x \in {k} |-> v]

\* m[k] = v
Put(m, k, v) == [x \in (DOMAIN m) \cup {k} |-> IF x = k THEN v ELSE m[x]]

\* zip(d.keys(), (f_factor, m_factor, ud_factor)): d[key] += factor
AddLegs(d, fac) ==
    [k \in DescrKeys |->
        d[k] + (CASE k = "DESCR:F"  -> fac.f
                  [] k = "DESCR:M"  -> fac.m
                  [] k = "DESCR:NA" -> fac.ud)]

\* The sentiment sums and the norm values are Python floats: every product
\* and every sum is rounded to the nearest representable number, ties to the
\* even significand.  The floats of the model have MantissaBits bits of
\* significand: the whole numbers below 2^MantissaBits are exact, above them
\* the spacing doubles with every power of two.
RECURSIVE ulp(_)
ulp(x) == IF x < 2 ^ MantissaBits THEN 1 ELSE 2 * ulp(x \div 2)

\* the float nearest to the non-negative number x
fl(x) ==
    LET u == ulp(x)
        q == x \div u
        r == x % u
    IN  IF 2 * r < u THEN q * u
        ELSE IF 2 * r > u THEN (q + 1) * u
        ELSE IF q % 2 = 0 THEN q * u ELSE (q + 1) * u

\* the comprehension without the factor: [a + b for a, b in zip(...)]
Scaled_by_one(sum, factor, descriptor) ==
    [j \in 1..4 |-> fl(sum[j] + glean_norm_values[descriptor][j])]

\* [a + factor*b for a, b in zip(sum, glean_norm_values[descriptor])]
Scaled(sum, factor, descriptor) ==
    [i \in 1..4 |-> fl(sum[i] + fl(factor * glean_norm_values[descriptor][i]))]

\* the objects add_descriptor writes to: the three shared dicts and the
\* fields of the Statistics object
Acc(fd, md, udd, st) == [fd |-> fd, md |-> md, udd |-> udd, st |-> st]

\* an except branch that counts one miss per bucket instead of the legs
glean_update_miss_by_one(descriptor, fac, st) ==
    IF descriptor \in DOMAIN glean_norm_values
    THEN [st EXCEPT
            !.female_glean = Scaled(@, fac.f, descriptor),
            !.male_glean   = Scaled(@, fac.m, descriptor),
            !.ud_glean     = Scaled(@, fac.ud, descriptor)]
    ELSE [st EXCEPT !.glean_not_found = [k \in DescrKeys |-> @[k] + 1]]

\* a try block that also counts a lemma of the lexicon as not found
glean_update_counting_hits(descriptor, fac, st) ==
    IF descriptor \in DOMAIN glean_norm_values
    THEN [st EXCEPT
            !.female_glean = Scaled(@, fac.f, descriptor),
            !.male_glean   = Scaled(@, fac.m, descriptor),
            !.ud_glean     = Scaled(@, fac.ud, descriptor),
            !.glean_not_found = AddLegs(@, fac)]
    ELSE [st EXCEPT !.glean_not_found = AddLegs(@, fac)]

\* the except branch: KeyError is raised by the first statement of the try
\* block, before any of the three sums is assigned
glean_update(descriptor, fac, st) ==
    IF descriptor \in DOMAIN glean_norm_values
    THEN [st EXCEPT
            !.female_glean = Scaled(@, fac.f, descriptor),
            !.male_glean   = Scaled(@, fac.m, descriptor),
            !.ud_glean     = Scaled(@, fac.ud, descriptor)]
    ELSE [st EXCEPT !.glean_not_found = AddLegs(@, fac)]

\* add_descriptor storing the legs instead of adding them to the stored counts
add_descriptor_overwriting(descriptor, fac, A) ==
    Acc(Put(A.fd, descriptor, fac.f),
        Put(A.md, descriptor, fac.m),
        Put(A.udd, descriptor, fac.ud),
        glean_update(descriptor, fac,
                     [A.st EXCEPT !.num_matches_descr = AddLegs(@, fac)]))

add_descriptor(descriptor, fac, A) ==
    Acc(Put(A.fd, descriptor, Get(A.fd, descriptor) + fac.f),
        Put(A.md, descriptor, Get(A.md, descriptor) + fac.m),
        Put(A.udd, descriptor, Get(A.udd, descriptor) + fac.ud),
        glean_update(descriptor, fac,
                     [A.st EXCEPT !.num_matches_descr = AddLegs(@, fac)]))


-----------------------------------------------------------------------------
(* parse_descriptors: one iteration of the loop over the tokens of doc *)

Max(S) == CHOOSE x \in S : \A y \in S : x >= y

\* the set S of token indices as a sequence in document order
RECURSIVE InOrder(_)
InOrder(S) ==
    IF S = {} THEN <<>> ELSE <<Min(S)>> \o InOrder(S \ {Min(S)})

head_of(d, i) == d[i].head

\* the negation test without the ADJ heads
is_negation_verbal_head(d, i) ==
    d[i].dep = "ng" /\ d[head_of(d, i)].pos \in {"VERB", "AUX"}

is_negation(d, i) ==
    d[i].dep = "ng" /\ d[head_of(d, i)].pos \in {"VERB", "AUX", "ADJ"}

is_adjective(d, i) ==
    d[i].dep = "nk" /\ d[i].pos = "ADJ" /\ d[head_of(d, i)].pos \in TARGET_POS

is_predicative(d, i) ==
    /\ d[i].dep \in {"pd", "oc"}
    /\ d[head_of(d, i)].pos = "AUX"
    /\ d[i].pos \in {"ADV", "VERB"}

is_subject(d, i) ==
    /\ d[i].dep = "sb"
    /\ d[head_of(d, i)].pos = "VERB"
    /\ d[i].pos \in TARGET_POS
    /\ is_nom(d[i])

\* the chain with a subject test that does not ask for the nominative
token_pattern_any_case(d, i) ==
    IF is_negation(d, i) THEN "negation"
    ELSE IF is_adjective(d, i) THEN "adjective"
    ELSE IF is_predicative(d, i) THEN "predicative"
    ELSE IF d[i].dep = "sb" /\ d[head_of(d, i)].pos = "VERB" /\ d[i].pos \in TARGET_POS
    THEN "subject_verb"
    ELSE "none"

\* the chain of if / elif / else over the four patterns
token_pattern(d, i) ==
    IF is_negation(d, i) THEN "negation"
    ELSE IF is_adjective(d, i) THEN "adjective"
    ELSE IF is_predicative(d, i) THEN "predicative"
    ELSE IF is_subject(d, i) THEN "subject_verb"
    ELSE "none"

\* a predicative branch without the scan of the children of the auxiliary
predicative_target_head_only(d, i) ==
    LET h  == head_of(d, i)
        hh == head_of(d, h)
    IN  IF d[h].dep \in {"rc", "oc"} /\ d[hh].pos \in TARGET_POS /\ is_nom(d[hh])
        THEN hh
        ELSE 0

\* a predicative branch that scans the children of the auxiliary before it
\* looks at the head of the auxiliary
predicative_target_children_first(d, i) ==
    LET h  == head_of(d, i)
        hh == head_of(d, h)
        S  == {c \in children(d, h) :
                 d[c].pos \in TARGET_POS /\ is_nom(d[c]) /\ d[c].dep \in {"sb", "oc"}}
    IN  IF S # {} THEN Min(S)
        ELSE IF d[h].dep \in {"rc", "oc"} /\ d[hh].pos \in TARGET_POS /\ is_nom(d[hh])
        THEN hh
        ELSE 0

\* n of the predicative branch (0: None)
predicative_target(d, i) ==
    LET h  == head_of(d, i)
        hh == head_of(d, h)
        S  == {c \in children(d, h) :
                 d[c].pos \in TARGET_POS /\ is_nom(d[c]) /\ d[c].dep \in {"sb", "oc"}}
    IN  IF d[h].dep \in {"rc", "oc"} /\ d[hh].pos \in TARGET_POS /\ is_nom(d[hh])
        THEN hh
        ELSE IF S = {} THEN 0 ELSE Min(S)

\* the token handed to obtain_gender_occurrences (0: None)
pattern_target(d, i) ==
    CASE token_pattern(d, i) = "adjective"    -> head_of(d, i)
      [] token_pattern(d, i) = "predicative"  -> predicative_target(d, i)
      [] token_pattern(d, i) = "subject_verb" -> i
      [] OTHER -> 0

\* descriptor (a token) of the three descriptor patterns
pattern_descriptor(d, i) ==
    IF token_pattern(d, i) = "subject_verb" THEN head_of(d, i) ELSE i

\* a subject-verb branch that never finds a particle
subject_svp_dropped(d, i) == ""

\* svp of the subject-verb branch: every svp child of the verb overwrites it
subject_svp(d, i) ==
    LET S == {c \in children(d, head_of(d, i)) : d[c].dep = "svp"}
    IN  IF S = {} THEN "" ELSE lower(d[Max(S)].lemma) \o SVP_DELIMITER

\* a subject-verb branch in which an adverb child of the verb replaces the
\* head of the verb
subject_adv_child_first(d, i) ==
    LET h  == head_of(d, i)
        hh == head_of(d, h)
        S  == {c \in children(d, h) :
                 d[c].dep # "svp" /\ d[c].dep \in {"mo", "oc"}
                 /\ d[c].pos \in {"ADV", "AUX"}}
    IN  IF S # {} THEN Min(S)
        ELSE IF d[h].dep = "oc" /\ d[hh].pos \in {"ADV", "AUX"} THEN hh
        ELSE 0

\* adv of the subject-verb branch (0: None)
subject_adv(d, i) ==
    LET h  == head_of(d, i)
        hh == head_of(d, h)
        S  == {c \in children(d, h) :
                 d[c].dep # "svp" /\ d[c].dep \in {"mo", "oc"}
                 /\ d[c].pos \in {"ADV", "AUX"}}
    IN  IF d[h].dep = "oc" /\ d[hh].pos \in {"ADV", "AUX"} THEN hh
        ELSE IF S = {} THEN 0 ELSE Min(S)

pattern_adv(d, i) ==
    IF token_pattern(d, i) = "subject_verb" THEN subject_adv(d, i) ELSE 0

\* an svp that keeps the value of the last subject-verb iteration
RECURSIVE pattern_svp_kept(_, _)
pattern_svp_kept(d, i) ==
    IF token_pattern(d, i) = "subject_verb" THEN subject_svp(d, i)
    ELSE IF i = 1 THEN ""
    ELSE pattern_svp_kept(d, i - 1)

pattern_svp(d, i) ==
    IF token_pattern(d, i) = "subject_verb" THEN subject_svp(d, i) ELSE ""

is_descriptor_conjunct(c) ==
    c.dep = "cj" /\ (c.pos = "ADJ" \/ c.pos = "ADV" \/ c.pos = "VERB")

\* the child at which the inner for loop over tk.children breaks (0: none)
next_descriptor(d, tk) ==
    LET S == {j \in children(d, tk) :
                is_descriptor_conjunct(d[j]) \/ is_conjunction_link(d[j])}
    IN  IF S = {} THEN 0 ELSE Min(S)

\* what a followed conjunct c appends to nested_descr
RECURSIVE adverbs_of(_, _)
adverbs_of(d, cs) ==
    IF cs = <<>> THEN <<>>
    ELSE LET c == d[cs[1]]
         IN  (IF c.dep # "svp" /\ c.dep \in {"mo", "oc"} /\ c.pos \in {"ADV", "AUX"}
              THEN <<lower(c.lemma)>> ELSE <<>>)
             \o adverbs_of(d, Tail(cs))

conjunct_entries(d, c) ==
    LET S     == {x \in children(d, c) : d[x].dep = "svp"}
        svp_c == IF d[c].pos = "VERB" /\ S # {}
                 THEN lower(d[Max(S)].lemma) \o SVP_DELIMITER ELSE ""
    IN  (IF d[c].pos = "VERB" THEN adverbs_of(d, InOrder(children(d, c))) ELSE <<>>)
        \o <<svp_c \o lower(d[c].lemma)>>

\* the while loop started at tk: the lemmas appended to nested_descr
RECURSIVE walk_descriptors(_, _)
walk_descriptors(d, tk) ==
    LET c == next_descriptor(d, tk)
    IN  IF c = 0 THEN <<>>
        ELSE IF is_descriptor_conjunct(d[c])
        THEN conjunct_entries(d, c) \o walk_descriptors(d, c)
        ELSE walk_descriptors(d, c)

\* nested_descr after `for token in (descriptor, adv)`: the list is emptied
\* again at the start of every iteration that is not skipped, so with an adv
\* only the walk from adv is kept; then adv's own lemma is appended
nested_descr(d, descriptor, adv) ==
    IF adv # 0
    THEN walk_descriptors(d, adv) \o <<lower(d[adv].lemma)>>
    ELSE walk_descriptors(d, descriptor)

AsCalls(lemmas, fac) ==
    [k \in 1..Len(lemmas) |-> [descriptor |-> lemmas[k], factors |-> fac]]

\* the calls of an iteration that does not drop an all-zero vector
token_calls_unfiltered(d, i) ==
    LET fac == obtain_gender_occurrences(d, pattern_target(d, i))
    IN  IF token_pattern(d, i) \in {"negation", "none"}
        THEN <<>>
        ELSE AsCalls(<<pattern_svp(d, i) \o lower(d[pattern_descriptor(d, i)].lemma)>>
                     \o nested_descr(d, pattern_descriptor(d, i), pattern_adv(d, i)),
                     fac)

\* the add_descriptor calls of the iteration for token i, in order
token_calls(d, i) ==
    LET fac == obtain_gender_occurrences(d, pattern_target(d, i))
    IN  IF token_pattern(d, i) \in {"negation", "none"} \/ IsZero(fac)
        THEN <<>>
        ELSE AsCalls(<<pattern_svp(d, i) \o lower(d[pattern_descriptor(d, i)].lemma)>>
                     \o nested_descr(d, pattern_descriptor(d, i), pattern_adv(d, i)),
                     fac)

RECURSIVE apply_calls(_, _)
apply_calls(cs, A) ==
    IF cs = <<>> THEN A
    ELSE apply_calls(Tail(cs), add_descriptor(cs[1].descriptor, cs[1].factors, A))

RECURSIVE SumCalls(_)
SumCalls(cs) ==
    IF cs = <<>> THEN ZeroVec ELSE AddVec(cs[1].factors, SumCalls(Tail(cs)))

\* the body of `for token in doc` for token i
parse_token(d, i, A) ==
    IF token_pattern(d, i) = "negation"
    THEN [A EXCEPT !.st.num_neg = @ + 1]
    ELSE apply_calls(token_calls(d, i), A)


-----------------------------------------------------------------------------
(* fa_per.count_per, fa_prn.count_prn *)

Bool(b) == IF b THEN 1 ELSE 0

NewPerDicts ==
    [female_per |-> EmptyDict, male_per |-> EmptyDict, amb_per |-> EmptyDict,
     nh_per |-> EmptyDict, ud_per |-> EmptyDict]

NewPrnDicts == [female_prn |-> EmptyDict, male_prn |-> EmptyDict]

\* for label, value in num_matches.items(): if g == label: num_matches[label] = value + 1
CountLabel(num_matches, g) ==
    [k \in DOMAIN num_matches |-> num_matches[k] + Bool(g = k)]

\* the body of the loop over doc.ents for the entity at token i; after
\* merge_entities an entity is one token, and its text is modelled by the lemma
count_per_ent(e, P) ==
    LET text == e.lemma
        key  == (text \o " {") \o (e.ent \o "}")
        known == {"PER:weiblich", "PER:männlich", "PER:NA", "PER:AMB"}
    IN  [per |->
            [female_per |-> Put(P.per.female_per, text,
                                Get(P.per.female_per, text) + Bool(e.ent = "PER:weiblich")),
             male_per   |-> Put(P.per.male_per, text,
                                Get(P.per.male_per, text) + Bool(e.ent = "PER:männlich")),
             amb_per    |-> Put(P.per.amb_per, text,
                                Get(P.per.amb_per, text) + Bool(e.ent = "PER:AMB")),
             nh_per     |-> Put(P.per.nh_per, key,
                                Get(P.per.nh_per, key) + Bool(e.ent \notin known)),
             ud_per     |-> Put(P.per.ud_per, text,
                                Get(P.per.ud_per, text) + Bool(e.ent = "PER:NA"))],
         st |-> [P.st EXCEPT !.num_matches_per = CountLabel(@, e.ent)]]

RECURSIVE count_per_from(_, _, _)
count_per_from(d, i, P) ==
    IF i > Len(d) THEN P
    ELSE count_per_from(d, i + 1,
            IF startswith_PER(d[i].ent) THEN count_per_ent(d[i], P) ELSE P)

count_per(d, per, st) == count_per_from(d, 1, [per |-> per, st |-> st])

count_prn_token(t, P) ==
    [prn |->
        [female_prn |-> Put(P.prn.female_prn, t.lemma,
                            Get(P.prn.female_prn, t.lemma) + Bool(t.gender = "PRN:F")),
         male_prn   |-> Put(P.prn.male_prn, t.lemma,
                            Get(P.prn.male_prn, t.lemma) + Bool(t.gender = "PRN:M"))],
     st |-> [P.st EXCEPT !.num_matches_prn = CountLabel(@, t.gender)]]

RECURSIVE count_prn_from(_, _, _)
count_prn_from(d, i, P) ==
    IF i > Len(d) THEN P
    ELSE count_prn_from(d, i + 1,
            IF d[i].gender # None THEN count_prn_token(d[i], P) ELSE P)

count_prn(d, prn, st) == count_prn_from(d, 1, [prn |-> prn, st |-> st])

-----------------------------------------------------------------------------
(* Paragraphs *)

\* annotated paragraphs as the pipeline delivers them for short sentences
Examples ==
    { \* kluge Aerztin, Tisch und Lehrer
      << Tok("ADJ",   "nk",   2, {},      None,    "", "klug"),
         Tok("NOUN",  "ROOT", 2, {"Nom"}, "PRN:F", "", "Ärztin"),
         Tok("NOUN",  "cj",   2, {"Nom"}, None,    "", "Tisch"),
         Tok("CCONJ", "cd",   3, {},      None,    "", "und"),
         Tok("NOUN",  "cj",   4, {"Nom"}, "PRN:M", "", "Lehrer") >>,
      \* Die Aerztin laeuft schnell und springt
      << Tok("NOUN",  "sb",   2, {"Nom"}, "PRN:F", "", "Ärztin"),
         Tok("VERB",  "ROOT", 2, {},      None,    "", "laufen"),
         Tok("ADV",   "mo",   2, {},      None,    "", "schnell"),
         Tok("CCONJ", "cd",   2, {},      None,    "", "und"),
         Tok("VERB",  "cj",   4, {},      None,    "", "springen") >>,
      \* Die Aerztin ist klug
      << Tok("NOUN",  "sb",   2, {"Nom"}, "PRN:F", "", "Ärztin"),
         Tok("AUX",   "ROOT", 2, {},      None,    "", "sein"),
         Tok("ADV",   "pd",   2, {},      None,    "", "klug") >>,
      \* Der Lehrer steht auf
      << Tok("NOUN",  "sb",   2, {"Nom"}, "PRN:M", "", "Lehrer"),
         Tok("VERB",  "ROOT", 2, {},      None,    "", "stehen"),
         Tok("ADP",   "svp",  2, {},      None,    "", "auf") >>,
      \* Peter ist nicht nett
      << Tok("PROPN", "sb",   2, {"Nom"}, None,    "PER:männlich", "Peter"),
         Tok("AUX",   "ROOT", 2, {},      None,    "", "sein"),
         Tok("PART",  "ng",   2, {},      None,    "", "nicht"),
         Tok("ADV",   "pd",   2, {},      None,    "", "nett") >>,
      \* Der Tisch ist gross
      << Tok("NOUN",  "sb",   2, {"Nom"}, None,    "", "Tisch"),
         Tok("AUX",   "ROOT", 2, {},      None,    "", "sein"),
         Tok("ADV",   "pd",   2, {},      None,    "", "gross") >>,
      \* Anna und Kim lachen
      << Tok("PROPN", "sb",   4, {"Nom"}, None,    "PER:weiblich", "Anna"),
         Tok("CCONJ", "cd",   1, {},      None,    "", "und"),
         Tok("PROPN", "cj",   2, {"Nom"}, None,    "PER:nichtbinär", "Kim"),
         Tok("VERB",  "ROOT", 4, {},      None,    "", "lachen") >>,
      \* der Tisch, an dem die Aerztin klug ist
      << Tok("NOUN",  "ROOT", 1, {"Nom"}, None,    "", "Tisch"),
         Tok("NOUN",  "sb",   4, {"Nom"}, "PRN:F", "", "Ärztin"),
         Tok("ADV",   "pd",   4, {},      None,    "", "klug"),
         Tok("AUX",   "rc",   1, {},      None,    "", "sein") >>,
      \* Anna ist, wie der Lehrer, klug
      << Tok("PROPN", "sb",   2, {"Nom"}, None,    "PER:weiblich", "Anna"),
         Tok("AUX",   "ROOT", 2, {},      None,    "", "sein"),
         Tok("NOUN",  "oc",   2, {"Nom"}, "PRN:M", "", "Lehrer"),
         Tok("ADV",   "pd",   2, {},      None,    "", "klug") >>,
      \* Die Aerztin ist schnell gelaufen
      << Tok("NOUN",  "sb",   4, {"Nom"}, "PRN:F", "", "Ärztin"),
         Tok("AUX",   "ROOT", 2, {},      None,    "", "sein"),
         Tok("ADV",   "mo",   4, {},      None,    "", "schnell"),
         Tok("VERB",  "oc",   2, {},      None,    "", "laufen") >>,
      \* Der Tisch und der Lehrer stehen
      << Tok("NOUN",  "sb",   4, {"Nom"}, None,    "", "Tisch"),
         Tok("CCONJ", "cd",   1, {},      None,    "", "und"),
         Tok("NOUN",  "cj",   2, {"Nom"}, "PRN:M", "", "Lehrer"),
         Tok("VERB",  "ROOT", 4, {},      None,    "", "stehen") >>,
      \* Der Lehrer steht schnell auf und sieht die kluge Aerztin
      << Tok("NOUN",  "sb",   2, {"Nom"}, "PRN:M", "", "Lehrer"),
         Tok("VERB",  "ROOT", 2, {},      None,    "", "stehen"),
         Tok("ADV",   "mo",   2, {},      None,    "", "schnell"),
         Tok("ADP",   "svp",  2, {},      None,    "", "auf"),
         Tok("ADJ",   "nk",   6, {},      None,    "", "klug"),
         Tok("NOUN",  "oa",   2, {"Acc"}, "PRN:F", "", "Ärztin") >> }

\* the annotation of a token without its head
Profile(pos, dep, case, gender, ent, lemma) ==
    [pos |-> pos, dep |-> dep, case |-> case, gender |-> gender, ent |-> ent,
     lemma |-> lemma]

RootProfiles ==
    { Profile("VERB", "ROOT", {},      None,    "", "stehen"),
      Profile("AUX",  "ROOT", {},      None,    "", "sein"),
      Profile("NOUN", "ROOT", {"Nom"}, "PRN:F", "", "Frau"),
      Profile("ADV",  "ROOT", {},      None,    "", "gern") }

Profiles ==
    { Profile("NOUN",  "sb",  {"Nom"}, "PRN:F", "", "Frau"),
      Profile("NOUN",  "sb",  {"Nom"}, None,    "", "Tisch"),
      Profile("NOUN",  "sb",  {"Acc"}, "PRN:M", "", "Mann"),
      Profile("PROPN", "cj",  {"Nom"}, None,    "PER:männlich", "Peter"),
      Profile("NOUN",  "cj",  {"Nom"}, None,    "", "Tisch"),
      Profile("NOUN",  "cj",  {"Nom"}, "PRN:M", "", "Mann"),
      Profile("PROPN", "cj",  {"Nom"}, None,    "PER:nichtbinär", "Kim"),
      Profile("PROPN", "oc",  {"Nom"}, None,    "PER:NA", "Alex"),
      Profile("VERB",  "oc",  {},      None,    "", "laufen"),
      Profile("VERB",  "cj",  {},      None,    "", "gehen"),
      Profile("ADV",   "mo",  {},      None,    "", "schnell"),
      Profile("ADV",   "pd",  {},      None,    "", "Klug"),
      Profile("ADJ",   "nk",  {},      None,    "", "klug"),
      Profile("ADJ",   "cj",  {},      None,    "", "nett"),
      Profile("CCONJ", "cd",  {},      None,    "", "und"),
      Profile("ADP",   "svp", {},      None,    "", "Auf"),
      Profile("PART",  "ng",  {},      None,    "", "nicht"),
      Profile("AUX",   "rc",  {},      None,    "", "sein") }

\* dependency trees over k tokens: token 1 is the root and its own head, every
\* other token hangs below an earlier one
Heads(k) ==
    {h \in [1..k -> 1..k] : h[1] = 1 /\ \A i \in 2..k : h[i] < i}

WithHeads(ps, h) ==
    [i \in DOMAIN ps |->
        Tok(ps[i].pos, ps[i].dep, h[i], ps[i].case, ps[i].gender, ps[i].ent,
            ps[i].lemma)]

\* the generated paragraphs of k tokens
Paragraphs(k) ==
    {WithHeads(ps, h) :
        ps \in {q \in [1..k -> RootProfiles \cup Profiles] :
                    q[1] \in RootProfiles /\ \A i \in 2..k : q[i] \in Profiles},
        h \in Heads(k)}


\* target trees for obtain_gender_occurrences: a NOUN target with every
\* combination of gender tag and person label, above conjuncts and links
TargetProfiles ==
    {Profile("NOUN", "ROOT", {"Nom"}, g, e, "Person") :
        g \in {None, "PRN:F", "PRN:M"}, e \in EntLabels}

ConjunctProfiles ==
    {Profile("NOUN", dc[1], dc[2], ge[1], ge[2], "Person") :
        dc \in {<<"cj", {"Nom"}>>, <<"cj", {"Acc"}>>},
        ge \in {<<None, "">>, <<"PRN:F", "">>, <<"PRN:M", "">>,
                <<None, "PER:NA">>, <<None, "PER:nichtbinär">>}}
    \cup {Profile("CCONJ", "cd", {}, None, "", "und"),
          Profile("NOUN", "nk", {"Nom"}, "PRN:F", "", "Person"),
          Profile("ADJ", "cj", {"Nom"}, None, "PER:NA", "Person")}

TargetTrees(k) ==
    {WithHeads(ps, h) :
        ps \in {q \in [1..k -> TargetProfiles \cup ConjunctProfiles] :
                    q[1] \in TargetProfiles /\ \A i \in 2..k : q[i] \in ConjunctProfiles},
        h \in Heads(k)}

-----------------------------------------------------------------------------
(* The program *)

\* main: prev_stats = Statistics(PER({}, ...), PRN({}, {}), DESCR({}, {}, {}), GLEAN(), ...)
InitRun ==
    /\ female_descriptors = EmptyDict
    /\ male_descriptors = EmptyDict
    /\ ud_descriptors = EmptyDict
    /\ per_dicts = NewPerDicts
    /\ prn_dicts = NewPrnDicts
    /\ statistics = NewStatistics
    /\ prev_stats = NewStatistics
    /\ stats_list = <<>>
    /\ n = 0
    /\ pars = 0
    /\ target = 0
    /\ factors = ZeroVec
    /\ pattern = "start"
    /\ calls = <<>>
    /\ fed = ZeroVec

\* gender_ner is not running
\* there are no workers
NoWorkers == wpc = <<>> /\ wtmp = <<>> /\ wargs = <<>> /\ raced = {}

\* the list objects are not followed
NoHeap == [objs |-> <<>>, female_glean |-> 0, male_glean |-> 0, ud_glean |-> 0]

\* no coordination walk is being stepped through
NoWalk == [tk |-> 0, new_children |-> FALSE, steps |-> 0, nested_descr |-> <<>>]

NoEntities ==
    /\ ents = <<>> /\ new_ents = <<>> /\ tries = 0 /\ slept = 0 /\ outcome = "none"
    /\ NoWorkers
    /\ walk = NoWalk
    /\ heap = NoHeap

Init ==
    /\ InitRun
    /\ doc = <<>>
    /\ idx = 1
    /\ pc = "load"
    /\ NoEntities

\* the keys main reads from num_matches_per to build the row of an article
RowPerKeys == {"PER:weiblich", "PER:männlich", "PER:NA", "PER:AMB"}

\* load_text returns the paragraphs: a new Statistics object takes the dicts of
\* prev_stats and fresh counters, and analyze starts
LoadArticle ==
    /\ pc = "load"
    /\ n < MaxArticles
    /\ statistics' = NewStatistics
    /\ pars' \in 1..MaxPars
    /\ pc' = "analyze"
    /\ UNCHANGED <<doc, idx, female_descriptors, male_descriptors, ud_descriptors,
                   per_dicts, prn_dicts, prev_stats, stats_list, n, target,
                   factors, pattern, calls, fed>>
    /\ UNCHANGED aux_vars

\* a skipped article that still gets a row of zero counters
SkipArticle_with_row ==
    /\ pc = "load"
    /\ n < MaxArticles
    /\ n' = n + 1
    /\ stats_list' = Append(stats_list, NewStatistics)
    /\ UNCHANGED <<doc, idx, pc, female_descriptors, male_descriptors,
                   ud_descriptors, per_dicts, prn_dicts, statistics, prev_stats,
                   pars, target, factors, pattern, calls, fed>>
    /\ UNCHANGED aux_vars

\* load_text returns None (bibliography, imprint)
SkipArticle ==
    /\ pc = "load"
    /\ n < MaxArticles
    /\ n' = n + 1
    /\ UNCHANGED <<doc, idx, pc, female_descriptors, male_descriptors,
                   ud_descriptors, per_dicts, prn_dicts, statistics, prev_stats,
                   stats_list, pars, target, factors, pattern, calls, fed>>
    /\ UNCHANGED aux_vars

\* analyze: the next paragraph is annotated, its tokens are counted,
\* count_per and count_prn run and parse_descriptors is entered
AnalyzeParagraph ==
    /\ pc = "analyze"
    /\ pars > 0
    /\ \E d \in Examples :
        LET st1 == [statistics EXCEPT !.token_num = @ + Len(d)]
            P   == count_per(d, per_dicts, st1)
            Q   == count_prn(d, prn_dicts, P.st)
        IN  /\ doc' = d
            /\ per_dicts' = P.per
            /\ prn_dicts' = Q.prn
            /\ statistics' = Q.st
    /\ idx' = 1
    /\ pars' = pars - 1
    /\ pc' = "parse"
    /\ UNCHANGED <<female_descriptors, male_descriptors, ud_descriptors,
                   prev_stats, stats_list, n, target, factors, pattern, calls, fed>>
    /\ UNCHANGED aux_vars

\* parse_descriptors: the iteration for the token at idx
ParseToken ==
    /\ pc = "parse"
    /\ idx <= Len(doc)
    /\ LET A == parse_token(doc, idx,
                    Acc(female_descriptors, male_descriptors, ud_descriptors,
                        statistics))
       IN  /\ female_descriptors' = A.fd
           /\ male_descriptors' = A.md
           /\ ud_descriptors' = A.udd
           /\ statistics' = A.st
    /\ pattern' = token_pattern(doc, idx)
    /\ target' = pattern_target(doc, idx)
    /\ factors' = IF token_pattern(doc, idx) \in {"negation", "none"}
                  THEN factors
                  ELSE obtain_gender_occurrences(doc, pattern_target(doc, idx))
    /\ calls' = token_calls(doc, idx)
    /\ fed' = AddVec(fed, SumCalls(token_calls(doc, idx)))
    /\ idx' = idx + 1
    /\ UNCHANGED <<doc, pc, per_dicts, prn_dicts, prev_stats, stats_list, n, pars>>
    /\ UNCHANGED aux_vars

\* parse_descriptors returns to analyze
ParagraphDone ==
    /\ pc = "parse"
    /\ idx > Len(doc)
    /\ pc' = "analyze"
    /\ UNCHANGED <<doc, idx, female_descriptors, male_descriptors, ud_descriptors,
                   per_dicts, prn_dicts, statistics, prev_stats, stats_list, n,
                   pars, target, factors, pattern, calls, fed>>
    /\ UNCHANGED aux_vars

\* analyze has returned: main builds the row, reading the four person
\* counters by key (KeyError when one is missing), appends it and carries the
\* Statistics object forward
FinishArticle ==
    /\ pc = "analyze"
    /\ pars = 0
    /\ IF RowPerKeys \subseteq DOMAIN statistics.num_matches_per
       THEN /\ stats_list' = Append(stats_list, statistics)
            /\ prev_stats' = statistics
            /\ n' = n + 1
            /\ pc' = "load"
       ELSE /\ pc' = "KeyError"
            /\ UNCHANGED <<stats_list, prev_stats, n>>
    /\ UNCHANGED <<doc, idx, female_descriptors, male_descriptors, ud_descriptors,
                   per_dicts, prn_dicts, statistics, pars, target, factors,
                   pattern, calls, fed>>
    /\ UNCHANGED aux_vars

\* the articles are exhausted: save_results(prev_stats, stats_list)
SaveResults ==
    /\ pc = "load"
    /\ pc' = "saved"
    /\ UNCHANGED <<doc, idx, female_descriptors, male_descriptors, ud_descriptors,
                   per_dicts, prn_dicts, statistics, prev_stats, stats_list, n,
                   pars, target, factors, pattern, calls, fed>>
    /\ UNCHANGED aux_vars

Next ==
    \/ LoadArticle
    \/ SkipArticle
    \/ AnalyzeParagraph
    \/ ParseToken
    \/ ParagraphDone
    \/ FinishArticle
    \/ SaveResults

Spec == Init /\ [][Next]_vars

-----------------------------------------------------------------------------
(* parse_descriptors on one paragraph and an empty accumulator *)

InitParse ==
    /\ InitRun
    /\ doc \in Examples \cup Paragraphs(MaxTokens)
    /\ idx = 1
    /\ pc = "parse"
    /\ NoEntities

ParseReturn ==
    /\ pc = "parse"
    /\ idx > Len(doc)
    /\ pc' = "returned"
    /\ UNCHANGED <<doc, idx, female_descriptors, male_descriptors, ud_descriptors,
                   per_dicts, prn_dicts, statistics, prev_stats, stats_list, n,
                   pars, target, factors, pattern, calls, fed>>
    /\ UNCHANGED aux_vars

NextParse == ParseToken \/ ParseReturn

SpecParse == InitParse /\ [][NextParse]_vars

-----------------------------------------------------------------------------
(* obtain_gender_occurrences on one target *)

InitGender ==
    /\ female_descriptors = EmptyDict
    /\ male_descriptors = EmptyDict
    /\ ud_descriptors = EmptyDict
    /\ per_dicts = NewPerDicts
    /\ prn_dicts = NewPrnDicts
    /\ statistics = NewStatistics
    /\ prev_stats = NewStatistics
    /\ stats_list = <<>>
    /\ n = 0
    /\ pars = 0
    /\ factors = ZeroVec
    /\ pattern = "start"
    /\ calls = <<>>
    /\ fed = ZeroVec
    /\ idx = 1
    /\ pc = "call"
    /\ \/ doc = <<>> /\ target = 0
       \/ doc \in TargetTrees(MaxChain) /\ target = 1
    /\ NoEntities

ObtainGender ==
    /\ pc = "call"
    /\ factors' = obtain_gender_occurrences(doc, target)
    /\ pc' = "returned"
    /\ UNCHANGED <<doc, idx, female_descriptors, male_descriptors, ud_descriptors,
                   per_dicts, prn_dicts, statistics, prev_stats, stats_list, n,
                   pars, target, pattern, calls, fed>>
    /\ UNCHANGED aux_vars

SpecGender == InitGender /\ [][ObtainGender]_vars

-----------------------------------------------------------------------------
(* add_descriptor on arbitrary records *)

\* "klug" is in the lexicon, "nett" is not
Lemmas == {"klug", "nett"}

Legs == {0, 1, 2}

InitAdd ==
    /\ InitRun
    /\ doc = <<>>
    /\ idx = 1
    /\ pc = "add"
    /\ NoEntities

AddDescriptor ==
    /\ pc = "add"
    /\ n < MaxCalls
    /\ \E l \in Lemmas, f \in Legs, m \in Legs, ud \in Legs :
        LET A == add_descriptor(l, Vec(f, m, ud),
                    Acc(female_descriptors, male_descriptors, ud_descriptors,
                        statistics))
        IN  /\ female_descriptors' = A.fd
            /\ male_descriptors' = A.md
            /\ ud_descriptors' = A.udd
            /\ statistics' = A.st
            /\ calls' = <<[descriptor |-> l, factors |-> Vec(f, m, ud)]>>
            /\ fed' = AddVec(fed, Vec(f, m, ud))
    /\ n' = n + 1
    /\ UNCHANGED <<doc, idx, pc, per_dicts, prn_dicts, prev_stats, stats_list,
                   pars, target, factors, pattern>>
    /\ UNCHANGED aux_vars

SpecAdd == InitAdd /\ [][AddDescriptor]_vars


-----------------------------------------------------------------------------
(* gender_prn: the pipeline component that writes the gender tag *)

\* doc._.prn_male and doc._.prn_female as setup fills them from the list of
\* person nouns; "Gast" is listed under both specifiers
prn_male == {"Lehrer", "Gast"}

prn_female == {"Ärztin", "Gast"}

\* the loop body without the test of the part of speech
gender_prn_token_any_pos(t) ==
    IF t.lemma \in prn_male THEN [t EXCEPT !.gender = "PRN:M"]
    ELSE IF t.lemma \in prn_female THEN [t EXCEPT !.gender = "PRN:F"]
    ELSE t

\* the body of the loop over the tokens of doc
gender_prn_token(t) ==
    IF t.pos # "NOUN" /\ t.pos # "PROPN" THEN t
    ELSE IF t.lemma \in prn_male THEN [t EXCEPT !.gender = "PRN:M"]
    ELSE IF t.lemma \in prn_female THEN [t EXCEPT !.gender = "PRN:F"]
    ELSE t

\* tokens as the components before gender_prn leave them: the extension
\* attribute gender has its default
PrnTokens ==
    {Tok(p, "nk", 1, {}, None, "", l) :
        p \in {"NOUN", "PROPN", "ADJ"}, l \in {"Lehrer", "Ärztin", "Gast", "Tisch"}}

PrnDocs(k) == UNION {[1..j -> PrnTokens] : j \in 1..k}

InitPrn ==
    /\ InitRun
    /\ doc \in PrnDocs(MaxPrn)
    /\ idx = 1
    /\ pc = "gender_prn"
    /\ NoEntities

\* one iteration of the loop of gender_prn
GenderPrn ==
    /\ pc = "gender_prn"
    /\ idx <= Len(doc)
    /\ doc' = [doc EXCEPT ![idx] = gender_prn_token(@)]
    /\ idx' = idx + 1
    /\ UNCHANGED <<pc, female_descriptors, male_descriptors, ud_descriptors,
                   per_dicts, prn_dicts, statistics, prev_stats, stats_list, n,
                   pars, target, factors, pattern, calls, fed>>
    /\ UNCHANGED aux_vars

\* return doc
PrnReturn ==
    /\ pc = "gender_prn"
    /\ idx > Len(doc)
    /\ pc' = "returned"
    /\ UNCHANGED <<doc, idx, female_descriptors, male_descriptors, ud_descriptors,
                   per_dicts, prn_dicts, statistics, prev_stats, stats_list, n,
                   pars, target, factors, pattern, calls, fed>>
    /\ UNCHANGED aux_vars

NextPrn == GenderPrn \/ PrnReturn

SpecPrn == InitPrn /\ [][NextPrn]_vars

-----------------------------------------------------------------------------
(* gender_ner: the pipeline component that labels person entities *)

\* what a call of obtain_gender does: it returns a label, or the query raises
\* EndPointInternalError (HTTP 500), HTTPError (another HTTP status) or
\* URLError (no connection)
LookupOutcomes ==
    {"PER:weiblich", "PER:NA", "EndPointInternalError", "HTTPError", "URLError"}

Raised(o) == o \in {"EndPointInternalError", "HTTPError", "URLError"}

\* an except clause for EndPointInternalError alone
caught_internal_only(o) == o = "EndPointInternalError"

\* except (EndPointInternalError, HTTPError)
caught(o) == o \in {"EndPointInternalError", "HTTPError"}

Ent(text, label) == [text |-> text, label |-> label]

\* doc.ents as ner and merge_entities leave them
Entities == {Ent("Anna", "PER"), Ent("Kim", "PER"), Ent("Berlin", "LOC")}

EntLists(k) == UNION {[1..j -> Entities] : j \in 0..k}

InitNer ==
    /\ InitRun
    /\ doc = <<>>
    /\ idx = 1
    /\ pc = "gender_ner"
    /\ ents \in EntLists(MaxEnts)
    /\ new_ents = <<>>
    /\ tries = 0
    /\ slept = 0
    /\ outcome = "none"
    /\ NoWorkers
    /\ walk = NoWalk
    /\ heap = NoHeap

NerFrame ==
    UNCHANGED <<doc, female_descriptors, male_descriptors, ud_descriptors,
                per_dicts, prn_dicts, statistics, prev_stats, stats_list, n,
                pars, target, factors, pattern, calls, fed, worker_vars, walk, heap>>

\* an entity whose label is not PER is left out of new_ents
NerSkip ==
    /\ pc = "gender_ner"
    /\ idx <= Len(ents)
    /\ ents[idx].label # "PER"
    /\ idx' = idx + 1
    /\ UNCHANGED <<pc, ents, new_ents, tries, slept, outcome>>
    /\ NerFrame

\* the first try statement: obtain_gender(old_ent.text)
NerLookup ==
    /\ pc = "gender_ner"
    /\ idx <= Len(ents)
    /\ ents[idx].label = "PER"
    /\ tries' = 1
    /\ slept' = 0
    /\ \E o \in LookupOutcomes :
        /\ outcome' = o
        /\ IF caught(o)
           THEN pc' = "sleep" /\ UNCHANGED <<idx, new_ents>>
           ELSE IF Raised(o)
           THEN pc' = "raised" /\ UNCHANGED <<idx, new_ents>>
           ELSE /\ new_ents' = Append(new_ents, Ent(ents[idx].text, o))
                /\ idx' = idx + 1
                /\ pc' = "gender_ner"
    /\ UNCHANGED ents
    /\ NerFrame

\* time.sleep(60000) in the except clause
NerSleep ==
    /\ pc = "sleep"
    /\ slept' = slept + 1
    /\ pc' = "retry"
    /\ UNCHANGED <<idx, ents, new_ents, tries, outcome>>
    /\ NerFrame

\* the inner try statement: the second obtain_gender call, PER:NA when it
\* raises one of the two errors again
NerRetry ==
    /\ pc = "retry"
    /\ tries' = tries + 1
    /\ \E o \in LookupOutcomes :
        /\ outcome' = o
        /\ IF caught(o)
           THEN /\ new_ents' = Append(new_ents, Ent(ents[idx].text, "PER:NA"))
                /\ idx' = idx + 1
                /\ pc' = "gender_ner"
           ELSE IF Raised(o)
           THEN pc' = "raised" /\ UNCHANGED <<idx, new_ents>>
           ELSE /\ new_ents' = Append(new_ents, Ent(ents[idx].text, o))
                /\ idx' = idx + 1
                /\ pc' = "gender_ner"
    /\ UNCHANGED <<ents, slept>>
    /\ NerFrame

\* doc.ents = new_ents; return doc
NerReturn ==
    /\ pc = "gender_ner"
    /\ idx > Len(ents)
    /\ ents' = new_ents
    /\ pc' = "returned"
    /\ UNCHANGED <<idx, new_ents, tries, slept, outcome>>
    /\ NerFrame

NextNer == NerSkip \/ NerLookup \/ NerSleep \/ NerRetry \/ NerReturn

SpecNer == InitNer /\ [][NextNer]_vars

-----------------------------------------------------------------------------
(* add_descriptor run by two workers on one shared Statistics object.  Every *)
(* statement of add_descriptor reads a location and then writes it; a worker *)
(* can be suspended between the two.                                         *)

Workers == {1, 2}

\* the locations the statements of add_descriptor(l, ...) update, in order:
\* the three mappings, the three match counters, then the three sentiment
\* sums or, for a lemma outside the lexicon, the three not-found counters
CellsOf(l) ==
    <<"fd", "md", "udd", "nm_F", "nm_M", "nm_NA">>
    \o (IF l \in DOMAIN glean_norm_values
        THEN <<"female_glean", "male_glean", "ud_glean">>
        ELSE <<"nf_F", "nf_M", "nf_NA">>)

\* positions 1, 3, .. are before the read of a statement, 2, 4, .. before its
\* write; LastPos is after the last statement
LastPos == 2 * Len(CellsOf("klug")) + 1

CellAt(w) == CellsOf(wargs[w].descriptor)[(wpc[w] + 1) \div 2]

\* the leg a statement adds
LegOfCell(cell, fac) ==
    CASE cell \in {"fd", "nm_F", "female_glean", "nf_F"} -> fac.f
      [] cell \in {"md", "nm_M", "male_glean", "nf_M"}   -> fac.m
      [] OTHER                                            -> fac.ud

\* the memory location of a cell: a mapping entry is one location per lemma
LocOf(cell, l) == IF cell \in {"fd", "md", "udd"} THEN cell \o (":" \o l) ELSE cell

\* the right-hand side reads the location
ReadCell(cell, l) ==
    CASE cell = "fd"  -> Get(female_descriptors, l)
      [] cell = "md"  -> Get(male_descriptors, l)
      [] cell = "udd" -> Get(ud_descriptors, l)
      [] cell = "nm_F"  -> statistics.num_matches_descr["DESCR:F"]
      [] cell = "nm_M"  -> statistics.num_matches_descr["DESCR:M"]
      [] cell = "nm_NA" -> statistics.num_matches_descr["DESCR:NA"]
      [] cell = "female_glean" -> statistics.female_glean
      [] cell = "male_glean"   -> statistics.male_glean
      [] cell = "ud_glean"     -> statistics.ud_glean
      [] cell = "nf_F"  -> statistics.glean_not_found["DESCR:F"]
      [] cell = "nf_M"  -> statistics.glean_not_found["DESCR:M"]
      [] cell = "nf_NA" -> statistics.glean_not_found["DESCR:NA"]

\* a store that adds to the value the location holds at the time of the store
StoredValue_atomic(cell, l, fac, tmp) ==
    IF cell \in {"female_glean", "male_glean", "ud_glean"}
    THEN Scaled(ReadCell(cell, l), LegOfCell(cell, fac), l)
    ELSE ReadCell(cell, l) + LegOfCell(cell, fac)

\* the value the statement stores: computed from the value read before
StoredValue(cell, l, fac, tmp) ==
    IF cell \in {"female_glean", "male_glean", "ud_glean"}
    THEN Scaled(tmp, LegOfCell(cell, fac), l)
    ELSE tmp + LegOfCell(cell, fac)

\* the Statistics fields after the store of v to the cell
StatisticsWith(cell, v) ==
    CASE cell = "nm_F"  -> [statistics EXCEPT !.num_matches_descr["DESCR:F"] = v]
      [] cell = "nm_M"  -> [statistics EXCEPT !.num_matches_descr["DESCR:M"] = v]
      [] cell = "nm_NA" -> [statistics EXCEPT !.num_matches_descr["DESCR:NA"] = v]
      [] cell = "female_glean" -> [statistics EXCEPT !.female_glean = v]
      [] cell = "male_glean"   -> [statistics EXCEPT !.male_glean = v]
      [] cell = "ud_glean"     -> [statistics EXCEPT !.ud_glean = v]
      [] cell = "nf_F"  -> [statistics EXCEPT !.glean_not_found["DESCR:F"] = v]
      [] cell = "nf_M"  -> [statistics EXCEPT !.glean_not_found["DESCR:M"] = v]
      [] cell = "nf_NA" -> [statistics EXCEPT !.glean_not_found["DESCR:NA"] = v]
      [] OTHER -> statistics

\* the calls of the two workers
WorkerCalls ==
    {[descriptor |-> l, factors |-> v] :
        l \in Lemmas, v \in {Vec(1, 1, 1), Vec(2, 1, 1)}}

InitWorkers ==
    /\ InitRun
    /\ doc = <<>>
    /\ idx = 1
    /\ pc = "workers"
    /\ ents = <<>> /\ new_ents = <<>> /\ tries = 0 /\ slept = 0 /\ outcome = "none"
    /\ wpc = [w \in Workers |-> 1]
    /\ wtmp = [w \in Workers |-> 0]
    /\ wargs \in [Workers -> WorkerCalls]
    /\ raced = {}
    /\ walk = NoWalk
    /\ heap = NoHeap

WorkerFrame ==
    UNCHANGED <<doc, idx, pc, per_dicts, prn_dicts, prev_stats, stats_list, n,
                pars, target, factors, pattern, calls, fed, ner_vars, wargs, walk, heap>>

\* worker w evaluates the right-hand side of its next statement
WorkerRead(w) ==
    /\ pc = "workers"
    /\ wpc[w] < LastPos
    /\ wpc[w] % 2 = 1
    /\ wtmp' = [wtmp EXCEPT ![w] = ReadCell(CellAt(w), wargs[w].descriptor)]
    /\ wpc' = [wpc EXCEPT ![w] = @ + 1]
    /\ UNCHANGED <<female_descriptors, male_descriptors, ud_descriptors,
                   statistics, raced>>
    /\ WorkerFrame

\* worker w stores the value of its statement
WorkerWrite(w) ==
    /\ pc = "workers"
    /\ wpc[w] < LastPos
    /\ wpc[w] % 2 = 0
    /\ LET cell == CellAt(w)
           l    == wargs[w].descriptor
           v    == StoredValue(cell, l, wargs[w].factors, wtmp[w])
       IN  /\ female_descriptors' =
                 IF cell = "fd" THEN Put(female_descriptors, l, v)
                 ELSE female_descriptors
           /\ male_descriptors' =
                 IF cell = "md" THEN Put(male_descriptors, l, v)
                 ELSE male_descriptors
           /\ ud_descriptors' =
                 IF cell = "udd" THEN Put(ud_descriptors, l, v)
                 ELSE ud_descriptors
           /\ statistics' = StatisticsWith(cell, v)
           /\ raced' = raced \cup
                 {LocOf(cell, l) : o \in {x \in Workers :
                      /\ x # w
                      /\ wpc[x] < LastPos
                      /\ wpc[x] % 2 = 0
                      /\ LocOf(CellAt(x), wargs[x].descriptor) = LocOf(cell, l)}}
    /\ wpc' = [wpc EXCEPT ![w] = @ + 1]
    /\ UNCHANGED wtmp
    /\ WorkerFrame

NextWorkers == \E w \in Workers : WorkerRead(w) \/ WorkerWrite(w)

SpecWorkers == InitWorkers /\ [][NextWorkers]_vars

-----------------------------------------------------------------------------
(* The two coordination walks, one iteration of `while new_children` per step *)

WalkRoots ==
    {p \in RootProfiles : p.pos \in {"NOUN", "VERB"}}

WalkProfiles ==
    {p \in Profiles : p.dep \in {"cj", "cd", "mo", "svp"}}

\* the trees the walks are started on
WalkTrees(k) ==
    {WithHeads(ps, h) :
        ps \in {q \in [1..k -> WalkRoots \cup WalkProfiles] :
                    q[1] \in WalkRoots /\ \A i \in 2..k : q[i] \in WalkProfiles},
        h \in Heads(k)}

\* tk = t, new_children = True before the while loop
StartWalk(t) ==
    [tk |-> t, new_children |-> TRUE, steps |-> 0, nested_descr |-> <<>>]

\* the walk stays at the token it is at
moved_to_stay(tk, child) == tk

\* tk = child
moved_to(tk, child) == child

\* the number of times tk was moved, counted up to one more than the tokens
Stepped(w, d) == IF w.steps <= Len(d) THEN w.steps + 1 ELSE w.steps

InitWalk ==
    /\ female_descriptors = EmptyDict
    /\ male_descriptors = EmptyDict
    /\ ud_descriptors = EmptyDict
    /\ per_dicts = NewPerDicts
    /\ prn_dicts = NewPrnDicts
    /\ statistics = NewStatistics
    /\ prev_stats = NewStatistics
    /\ stats_list = <<>>
    /\ n = 0
    /\ pars = 0
    /\ factors = ZeroVec
    /\ pattern = "start"
    /\ calls = <<>>
    /\ fed = ZeroVec
    /\ doc \in WalkTrees(MaxChain)
    /\ target \in 1..Len(doc)
    /\ idx = 1
    /\ pc \in {"walk_targets", "walk_descriptors"}
    /\ walk = StartWalk(target)
    /\ heap = NoHeap
    /\ ents = <<>> /\ new_ents = <<>> /\ tries = 0 /\ slept = 0 /\ outcome = "none"
    /\ NoWorkers

WalkFrame ==
    UNCHANGED <<doc, idx, female_descriptors, male_descriptors, ud_descriptors,
                per_dicts, prn_dicts, statistics, prev_stats, stats_list, n,
                pars, target, pattern, calls, fed, ner_vars, worker_vars, heap>>

\* obtain_gender_occurrences: the legs of the starting target, before the loop
TargetWalkEnter ==
    /\ pc = "walk_targets"
    /\ pattern = "start"
    /\ pattern' = "targets"
    /\ factors' = own_gender(doc[target])
    /\ UNCHANGED <<doc, idx, pc, female_descriptors, male_descriptors,
                   ud_descriptors, per_dicts, prn_dicts, statistics, prev_stats,
                   stats_list, n, pars, target, calls, fed, ner_vars,
                   worker_vars, walk, heap>>

\* one iteration of the while loop of obtain_gender_occurrences
TargetWalkStep ==
    /\ pc = "walk_targets"
    /\ pattern = "targets"
    /\ walk.new_children
    /\ LET c == next_target(doc, walk.tk)
       IN  IF c = 0
           THEN /\ walk' = [walk EXCEPT !.new_children = FALSE]
                /\ UNCHANGED factors
           ELSE IF is_target_conjunct(doc[c])
           THEN /\ walk' = [walk EXCEPT !.tk = moved_to(walk.tk, c),
                                        !.new_children = new_children_after(doc[c]),
                                        !.steps = Stepped(walk, doc)]
                /\ factors' = AddVec(factors, conjunct_gender(doc[c]))
           ELSE /\ walk' = [walk EXCEPT !.tk = moved_to(walk.tk, c),
                                        !.steps = Stepped(walk, doc)]
                /\ UNCHANGED factors
    /\ UNCHANGED pc
    /\ WalkFrame

\* one iteration of the while loop of parse_descriptors
DescriptorWalkStep ==
    /\ pc = "walk_descriptors"
    /\ walk.new_children
    /\ LET c == next_descriptor(doc, walk.tk)
       IN  IF c = 0
           THEN walk' = [walk EXCEPT !.new_children = FALSE]
           ELSE IF is_descriptor_conjunct(doc[c])
           THEN walk' = [walk EXCEPT !.tk = moved_to(walk.tk, c),
                                     !.steps = Stepped(walk, doc),
                                     !.nested_descr = @ \o conjunct_entries(doc, c)]
           ELSE walk' = [walk EXCEPT !.tk = moved_to(walk.tk, c),
                                     !.steps = Stepped(walk, doc)]
    /\ UNCHANGED <<pc, factors>>
    /\ WalkFrame

\* the while condition is false: the loop is left
WalkReturn ==
    /\ pc \in {"walk_targets", "walk_descriptors"}
    /\ pc = "walk_targets" => pattern = "targets"
    /\ ~walk.new_children
    /\ pc' = "returned"
    /\ UNCHANGED <<factors, walk>>
    /\ WalkFrame

NextWalk ==
    \/ TargetWalkEnter
    \/ TargetWalkStep
    \/ DescriptorWalkStep
    \/ WalkReturn

\* the interpreter keeps executing the loop
SpecWalk == InitWalk /\ [][NextWalk]_vars /\ WF_vars(NextWalk)

-----------------------------------------------------------------------------
(* The list objects behind the sentiment sums of one article *)

GleanFields == {"female_glean", "male_glean", "ud_glean"}

\* the object GLEAN_INIT is bound to when helper.py is imported
InitObj == 1

\* Statistics.GLEAN(): each default_factory returns the object GLEAN_INIT
NewGlean(h) ==
    [h EXCEPT !.female_glean = InitObj, !.male_glean = InitObj, !.ud_glean = InitObj]

\* the list a field refers to
Deref(h, field) == h.objs[h[field]]

\* an update that writes into the list the field refers to
glean_assign_in_place(h, field, v) == [h EXCEPT !.objs[h[field]] = v]

\* statistics.glean.<field> = [...]: the comprehension builds a new list and
\* the field is bound to it
glean_assign(h, field, v) ==
    [h EXCEPT !.objs = Append(@, v), ![field] = Len(h.objs) + 1]

\* the try block of add_descriptor, statement by statement
glean_try(h, descriptor, fac) ==
    LET h1 == glean_assign(h, "female_glean",
                           Scaled(Deref(h, "female_glean"), fac.f, descriptor))
        h2 == glean_assign(h1, "male_glean",
                           Scaled(Deref(h1, "male_glean"), fac.m, descriptor))
    IN  glean_assign(h2, "ud_glean",
                     Scaled(Deref(h2, "ud_glean"), fac.ud, descriptor))

\* the vectors parse_descriptors passes on: one or two targets, never all-zero
GleanVectors ==
    {v \in [f : Legs, m : Legs, ud : Legs] : v.f + v.m + v.ud \in {1, 2}}

\* main has built the first Statistics object (prev_stats); GLEAN_INIT is the
\* only list
InitGlean ==
    /\ InitRun
    /\ doc = <<>>
    /\ idx = 1
    /\ pc = "load"
    /\ ents = <<>> /\ new_ents = <<>> /\ tries = 0 /\ slept = 0 /\ outcome = "none"
    /\ NoWorkers
    /\ walk = NoWalk
    /\ heap = NewGlean([NoHeap EXCEPT !.objs = <<GLEAN_INIT>>])

GleanFrame ==
    UNCHANGED <<doc, idx, female_descriptors, male_descriptors, ud_descriptors,
                per_dicts, prn_dicts, statistics, prev_stats, stats_list,
                pars, target, factors, pattern, fed, ner_vars, worker_vars, walk>>

\* load_text returns None: no Statistics object is built
GleanSkip ==
    /\ pc = "load"
    /\ n < MaxArticles
    /\ n' = n + 1
    /\ UNCHANGED <<pc, calls, heap>>
    /\ GleanFrame

\* an article is loaded: Statistics(..., Statistics.GLEAN(), ...)
GleanLoad ==
    /\ pc = "load"
    /\ n < MaxArticles
    /\ heap' = NewGlean(heap)
    /\ pc' = "analyze"
    /\ UNCHANGED <<n, calls>>
    /\ GleanFrame

\* one add_descriptor call of the article
GleanAdd ==
    /\ pc = "analyze"
    /\ Len(calls) < MaxCalls
    /\ \E l \in Lemmas, fac \in GleanVectors :
          /\ calls' = Append(calls, [descriptor |-> l, factors |-> fac])
          /\ heap' = IF l \in DOMAIN glean_norm_values
                     THEN glean_try(heap, l, fac)
                     ELSE heap
    /\ UNCHANGED <<pc, n>>
    /\ GleanFrame

\* analyze has returned: main builds the row of the article
GleanFinish ==
    /\ pc = "analyze"
    /\ pc' = IF RowPerKeys \subseteq DOMAIN statistics.num_matches_per
             THEN "load" ELSE "KeyError"
    /\ UNCHANGED <<n, calls, heap>>
    /\ GleanFrame

NextGlean ==
    \/ GleanSkip
    \/ GleanLoad
    \/ GleanAdd
    \/ GleanFinish

SpecGlean == InitGlean /\ [][NextGlean]_vars

-----------------------------------------------------------------------------
(* Properties: shapes the claims speak about, stated on the tokens *)

Leq(a, b) == a.f <= b.f /\ a.m <= b.m /\ a.ud <= b.ud

GenderTagged(t) == t.gender \in {"PRN:F", "PRN:M"}

NominativeNoun(t) == t.pos \in {"NOUN", "PROPN"} /\ "Nom" \in t.case

ConjunctShape(t) == t.dep = "cj" /\ NominativeNoun(t)

LinkShape(t) == t.dep = "cd" /\ t.pos = "CCONJ"

\* b is the conjunct the chain continues with below a: a nominative noun
\* conjunct of a that no other coordination child of a precedes
ChainStep(d, a, b) ==
    /\ b \in 1..Len(d)
    /\ b # a
    /\ d[b].head = a
    /\ ConjunctShape(d[b])
    /\ \A j \in 1..(b - 1) :
          (j # a /\ d[j].head = a) => ~(ConjunctShape(d[j]) \/ LinkShape(d[j]))

NoChain(d, a) ==
    \A j \in 1..Len(d) :
        (j # a /\ d[j].head = a) => ~(ConjunctShape(d[j]) \/ LinkShape(d[j]))

\* the leg a token stands for: the gender tag first, the person label only
\* without a tag
LegOf(t) ==
    CASE t.gender = "PRN:F" -> Vec(1, 0, 0)
      [] t.gender = "PRN:M" -> Vec(0, 1, 0)
      [] t.gender = None /\ t.ent = "PER:weiblich" -> Vec(1, 0, 0)
      [] t.gender = None /\ t.ent = "PER:männlich" -> Vec(0, 1, 0)
      [] t.gender = None /\ t.ent \in {"PER:NA", "PER:AMB"} -> Vec(0, 0, 1)
      [] OTHER -> ZeroVec

NoGenderInfo(t) == t.gender = None /\ t.ent = ""

UnknownPerson(t) ==
    t.gender = None /\ t.ent \notin {"", "PER:weiblich", "PER:männlich", "PER:NA", "PER:AMB"}

\* target1 -> target2 -> target3 with target2 satisfying P and target3 tagged
ChainOfThree(d, t2, t3) ==
    /\ target = 1
    /\ ChainStep(d, 1, t2)
    /\ ChainStep(d, t2, t3)
    /\ GenderTagged(d[t3])

-----------------------------------------------------------------------------
(* C1 *)

\* C1 as stated: in a chain target1 -> target2 -> target3 of nominative noun
\* conjuncts where target2 has neither a gender tag nor a person label, the
\* walk stops at target2 and the tagged target3 adds nothing to the vector.
C1_StopsAtUntagged ==
    pc = "returned" =>
        \A t2, t3 \in 1..Len(doc) :
            (ChainOfThree(doc, t2, t3) /\ NoGenderInfo(doc[t2]))
                => factors = LegOf(doc[1])

\* C1 amended: the walk passes an untagged target2 without counting it and
\* adds the leg of the tagged target3; it is cut at target2 only when target2
\* is a person entity whose label is none of the four known ones, and then
\* the vector is that of target1 alone.
C1_CutOnlyAtUnknownPerson ==
    pc = "returned" =>
        \A t2, t3 \in 1..Len(doc) :
            ChainOfThree(doc, t2, t3) =>
                /\ NoGenderInfo(doc[t2])
                     => Leq(AddVec(LegOf(doc[1]), LegOf(doc[t3])), factors)
                /\ UnknownPerson(doc[t2]) => factors = LegOf(doc[1])

C1_Witness ==
    /\ pc = "returned"
    /\ Len(doc) = MaxChain
    /\ ChainOfThree(doc, 2, 3)
    /\ NoGenderInfo(doc[2])
    /\ doc[1].gender = "PRN:F"
    /\ doc[1].ent = ""
    /\ doc[3].gender = "PRN:M"
    /\ factors = Vec(1, 1, 0)

-----------------------------------------------------------------------------
(* C9 *)

\* C9: for a None target the vector is (0,0,0); for a target without a
\* coordination chain exactly the leg of the target itself is set, at most
\* one of the three: the gender tag decides when present, the person label
\* otherwise (weiblich: f, maennlich: m, NA and AMB: ud); with a chain the
\* target still contributes that leg.
C9_PrimaryGender ==
    pc = "returned" =>
        /\ target = 0 => factors = ZeroVec
        /\ target # 0 =>
            /\ LegOf(doc[target]).f + LegOf(doc[target]).m + LegOf(doc[target]).ud <= 1
            /\ Leq(LegOf(doc[target]), factors)
            /\ NoChain(doc, target) => factors = LegOf(doc[target])

C9_Witness ==
    /\ pc = "returned"
    /\ target = 1
    /\ NoChain(doc, 1)
    /\ doc[1].gender = "PRN:F"
    /\ doc[1].ent = "PER:männlich"
    /\ factors = Vec(1, 0, 0)


-----------------------------------------------------------------------------
(* Properties of parse_descriptors: the four patterns, stated on the tokens *)

NegationShape(d, i) ==
    d[i].dep = "ng" /\ d[d[i].head].pos \in {"VERB", "AUX", "ADJ"}

AdjectiveShape(d, i) ==
    d[i].dep = "nk" /\ d[i].pos = "ADJ" /\ d[d[i].head].pos \in {"NOUN", "PROPN"}

PredicativeShape(d, i) ==
    d[i].dep \in {"pd", "oc"} /\ d[i].pos \in {"ADV", "VERB"} /\ d[d[i].head].pos = "AUX"

SubjectShape(d, i) ==
    d[i].dep = "sb" /\ NominativeNoun(d[i]) /\ d[d[i].head].pos = "VERB"

DescriptorShape(d, i) ==
    ~NegationShape(d, i)
    /\ (AdjectiveShape(d, i) \/ PredicativeShape(d, i) \/ SubjectShape(d, i))

\* an iteration of the loop of parse_descriptors is taken for the token at idx
Iteration == pc = "parse" /\ idx' = idx + 1

Recorded == <<female_descriptors, male_descriptors, ud_descriptors, statistics>>

CallsFor(cs, l) == {k \in 1..Len(cs) : cs[k].descriptor = l}

RECURSIVE SumDict(_)
SumDict(m) ==
    IF DOMAIN m = {} THEN 0
    ELSE LET k == CHOOSE x \in DOMAIN m : TRUE
         IN  m[k] + SumDict([x \in (DOMAIN m) \ {k} |-> m[x]])

-----------------------------------------------------------------------------
(* C2 *)

\* C2: when an attributive adjective hangs on target1, target1 continues
\* with the conjunct target2, both are nominative nouns and both carry a
\* gender tag, the vector holds one increment for each of the two, and the
\* adjective is recorded by exactly one add_descriptor call, with that vector:
\* its counts grow by the legs of the vector.
C2_ConjunctSummed ==
    [][ (Iteration /\ AdjectiveShape(doc, idx)) =>
          \A t2 \in 1..Len(doc) :
            (/\ ChainStep(doc, doc[idx].head, t2)
             /\ NominativeNoun(doc[doc[idx].head])
             /\ GenderTagged(doc[doc[idx].head])
             /\ GenderTagged(doc[t2]))
            => /\ Leq(AddVec(LegOf(doc[doc[idx].head]), LegOf(doc[t2])), factors')
               /\ Cardinality(CallsFor(calls', lower(doc[idx].lemma))) = 1
               /\ calls'[1] = [descriptor |-> lower(doc[idx].lemma), factors |-> factors']
               /\ Get(female_descriptors', lower(doc[idx].lemma))
                    = Get(female_descriptors, lower(doc[idx].lemma)) + factors'.f
               /\ Get(male_descriptors', lower(doc[idx].lemma))
                    = Get(male_descriptors, lower(doc[idx].lemma)) + factors'.m
               /\ Get(ud_descriptors', lower(doc[idx].lemma))
                    = Get(ud_descriptors, lower(doc[idx].lemma)) + factors'.ud
      ]_vars

C2_Witness ==
    /\ pc = "parse"
    /\ idx > 1
    /\ AdjectiveShape(doc, idx - 1)
    /\ target = doc[idx - 1].head
    /\ doc[target].gender = "PRN:F"
    /\ \E t2 \in 1..Len(doc) :
          ChainStep(doc, target, t2) /\ doc[t2].gender = "PRN:M"
    /\ factors = Vec(1, 1, 0)
    /\ calls = <<[descriptor |-> "klug", factors |-> Vec(1, 1, 0)]>>
    /\ female_descriptors["klug"] = 1
    /\ male_descriptors["klug"] = 1

-----------------------------------------------------------------------------
(* C3 *)

DescriptorConjunctShape(t) == t.dep = "cj" /\ t.pos \in {"ADJ", "ADV", "VERB"}

\* the descriptor conjuncts the conjunct walk reaches from tk
RECURSIVE ReachedConjuncts(_, _)
ReachedConjuncts(d, tk) ==
    LET S == {j \in 1..Len(d) :
                j # tk /\ d[j].head = tk
                /\ (DescriptorConjunctShape(d[j]) \/ LinkShape(d[j]))}
    IN  IF S = {} THEN {}
        ELSE (IF DescriptorConjunctShape(d[Min(S)]) THEN {Min(S)} ELSE {})
             \cup ReachedConjuncts(d, Min(S))

\* the lemma under which a conjunct is recorded (a verb with its particle)
ConjunctLemma(d, c) == conjunct_entries(d, c)[Len(conjunct_entries(d, c))]

\* C3: when a primary descriptor is recorded (its vector is not all-zero),
\* every ADJ/ADV/VERB conjunct reached from the primary descriptor, and every
\* one reached from the captured auxiliary adverb, is passed to add_descriptor
\* under its own lemma with the vector of the primary descriptor.
C3_NestedExpansion ==
    (pc = "parse" /\ idx > 1 /\ calls # <<>>) =>
        \A c \in ReachedConjuncts(doc, pattern_descriptor(doc, idx - 1))
                 \cup (IF pattern_adv(doc, idx - 1) # 0
                       THEN ReachedConjuncts(doc, pattern_adv(doc, idx - 1))
                       ELSE {}) :
            \E k \in 1..Len(calls) :
                calls[k] = [descriptor |-> ConjunctLemma(doc, c), factors |-> factors]

-----------------------------------------------------------------------------
(* C4 *)

\* C4: whenever no article is being analysed, the Statistics object carried
\* forward by main holds the running totals of the run: in every gender bucket
\* its match counter, and the counts of its lemma -> count mapping, add up to
\* everything the articles analysed so far have contributed.
C4_CarriedForward ==
    pc \notin {"analyze", "parse"} =>
        /\ prev_stats.num_matches_descr["DESCR:F"] = fed.f
        /\ prev_stats.num_matches_descr["DESCR:M"] = fed.m
        /\ prev_stats.num_matches_descr["DESCR:NA"] = fed.ud
        /\ SumDict(female_descriptors) = fed.f
        /\ SumDict(male_descriptors) = fed.m
        /\ SumDict(ud_descriptors) = fed.ud

-----------------------------------------------------------------------------
(* C5 *)

\* C5: with an accumulator that starts empty, in every gender bucket the
\* counts of the lemma -> count mapping add up to the match counter of the
\* bucket and to the sum of that leg over the vectors passed to
\* add_descriptor.
C5_Additivity ==
    /\ SumDict(female_descriptors) = statistics.num_matches_descr["DESCR:F"]
    /\ SumDict(male_descriptors) = statistics.num_matches_descr["DESCR:M"]
    /\ SumDict(ud_descriptors) = statistics.num_matches_descr["DESCR:NA"]
    /\ SumDict(female_descriptors) = fed.f
    /\ SumDict(male_descriptors) = fed.m
    /\ SumDict(ud_descriptors) = fed.ud

C5_Witness ==
    /\ pc = "returned"
    /\ fed = Vec(2, 0, 0)
    /\ Cardinality(DOMAIN female_descriptors) = 1
    /\ statistics.num_matches_descr["DESCR:F"] = 2

-----------------------------------------------------------------------------
(* C6 *)

\* C6: the iteration for a token in negation relation to a VERB/AUX/ADJ head
\* adds one to the negation counter and changes nothing else: no
\* add_descriptor call, no descriptor mapping, match counter, sentiment sum or
\* not-found counter; and no iteration passes the lemma of such a token to
\* add_descriptor.
C6_NegationOnlyCounts ==
    [][ Iteration =>
          /\ NegationShape(doc, idx) =>
                /\ statistics' = [statistics EXCEPT !.num_neg = @ + 1]
                /\ calls' = <<>>
                /\ UNCHANGED <<female_descriptors, male_descriptors,
                               ud_descriptors, fed>>
          /\ \A t \in 1..Len(doc) :
                NegationShape(doc, t) => CallsFor(calls', lower(doc[t].lemma)) = {}
      ]_vars

C6_Witness ==
    /\ pc = "parse"
    /\ idx > 1
    /\ NegationShape(doc, idx - 1)
    /\ pattern = "negation"
    /\ statistics.num_neg = 1
    /\ calls = <<>>

-----------------------------------------------------------------------------
(* C7 *)

\* C7: no add_descriptor call carries the vector (0,0,0), and the iteration
\* for a descriptor token whose target vector is all-zero leaves the
\* descriptor mappings with their key sets, the match counters, the sentiment
\* sums and the not-found counters as they were.
C7_ZeroVectorNotRecorded ==
    [][ Iteration =>
          /\ \A k \in 1..Len(calls') : ~IsZero(calls'[k].factors)
          /\ (DescriptorShape(doc, idx) /\ IsZero(factors'))
                => (calls' = <<>> /\ UNCHANGED Recorded)
      ]_vars

C7_Witness ==
    /\ pc = "parse"
    /\ idx > 1
    /\ DescriptorShape(doc, idx - 1)
    /\ target # 0
    /\ IsZero(factors)
    /\ calls = <<>>

-----------------------------------------------------------------------------
(* C8 *)

\* C8: every token is handled by the first of negation, attributive
\* adjective, predicative and subject pattern it matches, and by no other: a
\* negation only counts, a descriptor pattern resolves its own target, and a
\* token matching none of the four leaves the statistics unchanged.
C8_Dispatch ==
    [][ Iteration =>
          /\ NegationShape(doc, idx)
                => (pattern' = "negation" /\ calls' = <<>>
                    /\ statistics'.num_neg = statistics.num_neg + 1)
          /\ (~NegationShape(doc, idx) /\ AdjectiveShape(doc, idx))
                => (pattern' = "adjective" /\ target' = doc[idx].head
                    /\ statistics'.num_neg = statistics.num_neg)
          /\ (~NegationShape(doc, idx) /\ ~AdjectiveShape(doc, idx)
                /\ PredicativeShape(doc, idx))
                => (pattern' = "predicative"
                    /\ statistics'.num_neg = statistics.num_neg)
          /\ (~NegationShape(doc, idx) /\ ~AdjectiveShape(doc, idx)
                /\ ~PredicativeShape(doc, idx) /\ SubjectShape(doc, idx))
                => (pattern' = "subject_verb" /\ target' = idx
                    /\ statistics'.num_neg = statistics.num_neg)
          /\ (~NegationShape(doc, idx) /\ ~AdjectiveShape(doc, idx)
                /\ ~PredicativeShape(doc, idx) /\ ~SubjectShape(doc, idx))
                => (pattern' = "none" /\ calls' = <<>> /\ UNCHANGED Recorded)
          /\ calls' # <<>> =>
                calls'[1].descriptor
                    = (IF SubjectShape(doc, idx)
                       THEN pattern_svp(doc, idx) \o lower(doc[doc[idx].head].lemma)
                       ELSE lower(doc[idx].lemma))
      ]_vars

C8_Witness ==
    /\ pc = "parse"
    /\ idx > 2
    /\ pattern = "none"
    /\ ~DescriptorShape(doc, idx - 1)
    /\ ~NegationShape(doc, idx - 1)
    /\ calls = <<>>
    /\ fed # ZeroVec


-----------------------------------------------------------------------------
(* C10 *)

\* the product of a leg and a lexicon entry, and the sum of two 4-vectors, in
\* the arithmetic of the sentiment sums
Times(k, e) == [j \in 1..4 |-> fl(k * e[j])]

Plus(a, b) == [j \in 1..4 |-> fl(a[j] + b[j])]

\* C10: add_descriptor(lemma, (f,m,ud)) for a lemma with the lexicon entry
\* [a,v,i,c] adds f*[a,v,i,c] to the female sentiment sum, m*[a,v,i,c] to the
\* male sum and ud*[a,v,i,c] to the undetermined sum, and leaves the not-found
\* counters unchanged.
C10_LexiconScaling ==
    [][ (pc = "add" /\ n' = n + 1
         /\ calls'[1].descriptor \in DOMAIN glean_norm_values) =>
          /\ statistics'.female_glean
                = Plus(statistics.female_glean,
                       Times(calls'[1].factors.f,
                             glean_norm_values[calls'[1].descriptor]))
          /\ statistics'.male_glean
                = Plus(statistics.male_glean,
                       Times(calls'[1].factors.m,
                             glean_norm_values[calls'[1].descriptor]))
          /\ statistics'.ud_glean
                = Plus(statistics.ud_glean,
                       Times(calls'[1].factors.ud,
                             glean_norm_values[calls'[1].descriptor]))
          /\ statistics'.glean_not_found = statistics.glean_not_found
      ]_vars

\* the example of the vector (2,0,1) on an empty accumulator
C10_Witness ==
    /\ pc = "add"
    /\ n = 1
    /\ calls = <<[descriptor |-> "klug", factors |-> Vec(2, 0, 1)]>>
    /\ statistics.female_glean = <<6, 10, 4, 2>>
    /\ statistics.male_glean = <<0, 0, 0, 0>>
    /\ statistics.ud_glean = <<3, 5, 2, 1>>
    /\ statistics.glean_not_found = [k \in DescrKeys |-> 0]


-----------------------------------------------------------------------------
(* C11 *)

\* C11: add_descriptor(lemma, (f,m,ud)) for a lemma that is not in the
\* lexicon adds f, m and ud to the female, male and undetermined not-found
\* counters and leaves the three sentiment sums as they were, while the
\* lemma -> count mappings and the match counters are updated by the legs.
C11_LexiconMiss ==
    [][ (pc = "add" /\ n' = n + 1
         /\ calls'[1].descriptor \notin DOMAIN glean_norm_values) =>
          /\ statistics'.glean_not_found["DESCR:F"]
                = statistics.glean_not_found["DESCR:F"] + calls'[1].factors.f
          /\ statistics'.glean_not_found["DESCR:M"]
                = statistics.glean_not_found["DESCR:M"] + calls'[1].factors.m
          /\ statistics'.glean_not_found["DESCR:NA"]
                = statistics.glean_not_found["DESCR:NA"] + calls'[1].factors.ud
          /\ statistics'.female_glean = statistics.female_glean
          /\ statistics'.male_glean = statistics.male_glean
          /\ statistics'.ud_glean = statistics.ud_glean
          /\ female_descriptors'[calls'[1].descriptor]
                = Get(female_descriptors, calls'[1].descriptor) + calls'[1].factors.f
          /\ male_descriptors'[calls'[1].descriptor]
                = Get(male_descriptors, calls'[1].descriptor) + calls'[1].factors.m
          /\ ud_descriptors'[calls'[1].descriptor]
                = Get(ud_descriptors, calls'[1].descriptor) + calls'[1].factors.ud
          /\ statistics'.num_matches_descr["DESCR:F"]
                = statistics.num_matches_descr["DESCR:F"] + calls'[1].factors.f
          /\ statistics'.num_matches_descr["DESCR:M"]
                = statistics.num_matches_descr["DESCR:M"] + calls'[1].factors.m
          /\ statistics'.num_matches_descr["DESCR:NA"]
                = statistics.num_matches_descr["DESCR:NA"] + calls'[1].factors.ud
      ]_vars

\* the vector (1,1,0) for a lemma outside the lexicon, on an empty accumulator
C11_Witness ==
    /\ pc = "add"
    /\ n = 1
    /\ calls = <<[descriptor |-> "nett", factors |-> Vec(1, 1, 0)]>>
    /\ statistics.glean_not_found
          = [k \in DescrKeys |-> IF k = "DESCR:NA" THEN 0 ELSE 1]
    /\ statistics.female_glean = <<0, 0, 0, 0>>
    /\ statistics.male_glean = <<0, 0, 0, 0>>
    /\ statistics.ud_glean = <<0, 0, 0, 0>>
    /\ female_descriptors["nett"] = 1
    /\ male_descriptors["nett"] = 1


-----------------------------------------------------------------------------
(* C12 *)

\* a three-token sentence: a nominative NOUN tagged female as subject of an
\* auxiliary, and "klug" as predicate complement of that auxiliary (the tagger
\* gives the predicative use the part of speech ADV)
PredicativeSentence(d) ==
    /\ Len(d) = 3
    /\ \E s \in 1..3, a \in 1..3, k \in 1..3 :
          /\ Cardinality({s, a, k}) = 3
          /\ d[a].pos = "AUX"
          /\ d[s].pos = "NOUN" /\ d[s].dep = "sb" /\ "Nom" \in d[s].case
          /\ d[s].gender = "PRN:F" /\ d[s].head = a
          /\ d[k].pos = "ADV" /\ d[k].dep = "pd" /\ d[k].head = a
          /\ lower(d[k].lemma) = "klug"

\* C12: for a sentence of a female person-noun subject, an auxiliary and the
\* predicative "klug" attached to the auxiliary as predicate complement,
\* parse_descriptors records exactly one descriptor occurrence: the lemma
\* "klug" with the vector (1,0,0).
C12_PredicativeEndToEnd ==
    (pc = "returned" /\ PredicativeSentence(doc)) =>
        /\ female_descriptors = [l \in {"klug"} |-> 1]
        /\ male_descriptors = [l \in {"klug"} |-> 0]
        /\ ud_descriptors = [l \in {"klug"} |-> 0]
        /\ fed = Vec(1, 0, 0)
        /\ statistics.num_matches_descr
              = [k \in DescrKeys |-> IF k = "DESCR:F" THEN 1 ELSE 0]
        /\ statistics.num_neg = 0

C12_Witness ==
    /\ pc = "returned"
    /\ PredicativeSentence(doc)
    /\ doc[1].lemma = "Ärztin"
    /\ female_descriptors = [l \in {"klug"} |-> 1]
    /\ statistics.female_glean = <<3, 5, 2, 1>>


-----------------------------------------------------------------------------
(* C13 *)

SvpChildren(d, h) == {c \in 1..Len(d) : c # h /\ d[c].head = h /\ d[c].dep = "svp"}

\* C13: in the subject-verb pattern, when the verb has a separable-particle
\* child, the descriptor recorded for the verb is the lower-cased particle
\* lemma followed directly by the lower-cased verb lemma, and neither the bare
\* verb lemma nor the particle is passed to add_descriptor in that iteration.
C13_SeparableParticle ==
    [][ (Iteration /\ SubjectShape(doc, idx)
         /\ SvpChildren(doc, doc[idx].head) # {}) =>
          LET h == doc[idx].head
              p == lower(doc[Max(SvpChildren(doc, h))].lemma)
              v == lower(doc[h].lemma)
          IN  /\ ~IsZero(factors') => calls' # <<>>
              /\ calls' # <<>> =>
                    /\ calls'[1] = [descriptor |-> p \o v, factors |-> factors']
                    /\ (p \o v) \in DOMAIN female_descriptors'
                    /\ (p \o v) \in DOMAIN male_descriptors'
                    /\ (p \o v) \in DOMAIN ud_descriptors'
              /\ CallsFor(calls', v) = {}
              /\ CallsFor(calls', p) = {}
              /\ (DOMAIN female_descriptors') \cap {v, p}
                    = (DOMAIN female_descriptors) \cap {v, p}
      ]_vars

\* Der Lehrer steht auf
C13_Witness ==
    /\ pc = "parse"
    /\ idx > 1
    /\ SubjectShape(doc, idx - 1)
    /\ SvpChildren(doc, doc[idx - 1].head) # {}
    /\ calls = <<[descriptor |-> "aufstehen", factors |-> Vec(0, 1, 0)]>>
    /\ male_descriptors = [l \in {"aufstehen"} |-> 1]
    /\ statistics.male_glean = <<2, 4, 5, 3>>


-----------------------------------------------------------------------------
(* C14 *)

NounPos(t) == t.pos = "NOUN" \/ t.pos = "PROPN"

\* C14: gender_prn tags a token male iff it is a NOUN or PROPN whose lemma is
\* in the male list, female iff it is a NOUN or PROPN whose lemma is in the
\* female list and not in the male list, leaves every other token untagged,
\* and changes nothing but the tag.
C14_GenderTagResolver ==
    [][ (pc = "gender_prn" /\ idx' = idx + 1) =>
          /\ doc'[idx].gender = "PRN:M"
                <=> (NounPos(doc[idx]) /\ doc[idx].lemma \in prn_male)
          /\ doc'[idx].gender = "PRN:F"
                <=> (NounPos(doc[idx]) /\ doc[idx].lemma \notin prn_male
                     /\ doc[idx].lemma \in prn_female)
          /\ doc'[idx].gender \in {None, "PRN:M", "PRN:F"}
          /\ doc' = [doc EXCEPT ![idx].gender = doc'[idx].gender]
          /\ UNCHANGED <<female_descriptors, male_descriptors, ud_descriptors,
                         per_dicts, prn_dicts, statistics, prev_stats>>
      ]_vars

C14_Witness ==
    /\ pc = "returned"
    /\ Len(doc) = 2
    /\ doc[1].pos = "NOUN" /\ doc[1].lemma = "Gast" /\ doc[1].gender = "PRN:M"
    /\ doc[2].pos = "ADJ" /\ doc[2].lemma = "Ärztin" /\ doc[2].gender = None


-----------------------------------------------------------------------------
(* C15 *)

\* C15: no failure is fatal to a run: main is always loading the next
\* article, analysing one, or done with save_results; it never stops in an
\* exception that nothing has caught.
C15_NoFatalStop == pc \in {"load", "analyze", "parse", "saved"}


-----------------------------------------------------------------------------
(* C16 *)

Transient == {"EndPointInternalError", "HTTPError"}

\* C16: for each person entity gender_ner calls the lookup at most twice; a
\* transient endpoint error of the first call leads to one back-off and one
\* retry, a transient endpoint error of the retry labels the entity PER:NA
\* and the loop goes on with the next entity; a first call that returns is not
\* repeated, and a transient endpoint error never leaves gender_ner.
C16_LookupRetry ==
    [][ /\ tries' <= 2
        /\ slept' <= 1
        /\ outcome' \in Transient => pc' # "raised"
        /\ (pc = "gender_ner" /\ tries' = 1 /\ outcome' \in Transient)
              => (pc' = "sleep" /\ UNCHANGED <<idx, new_ents>>)
        /\ (pc = "gender_ner" /\ idx' = idx + 1 /\ ents[idx].label = "PER")
              => (tries' = 1 /\ slept' = 0
                  /\ new_ents' = Append(new_ents, Ent(ents[idx].text, outcome')))
        /\ pc = "sleep"
              => (pc' = "retry" /\ slept' = 1 /\ tries' = 1
                  /\ UNCHANGED <<idx, new_ents>>)
        /\ pc = "retry" => tries' = 2
        /\ (pc = "retry" /\ outcome' \in Transient)
              => (/\ new_ents' = Append(new_ents, Ent(ents[idx].text, "PER:NA"))
                  /\ idx' = idx + 1
                  /\ pc' = "gender_ner")
        /\ (pc = "retry" /\ outcome' \in {"PER:weiblich", "PER:NA"})
              => (/\ new_ents' = Append(new_ents, Ent(ents[idx].text, outcome'))
                  /\ idx' = idx + 1
                  /\ pc' = "gender_ner")
      ]_vars

\* both calls for the first of two entities raised a transient error: the
\* entity is PER:NA and the loop is at the second entity
C16_Witness ==
    /\ pc = "gender_ner"
    /\ Len(ents) = 2
    /\ idx = 2
    /\ tries = 2
    /\ slept = 1
    /\ outcome = "HTTPError"
    /\ new_ents = <<Ent(ents[1].text, "PER:NA")>>


-----------------------------------------------------------------------------
(* C17 *)

\* the accumulator in the current state
Here == Acc(female_descriptors, male_descriptors, ud_descriptors, statistics)

Apply(rec, A) == add_descriptor(rec.descriptor, rec.factors, A)

\* the records that are exchanged: two for a lemma of the lexicon, one for a
\* lemma outside it
KlugOnce == [descriptor |-> "klug", factors |-> Vec(1, 0, 0)]

KlugTwice == [descriptor |-> "klug", factors |-> Vec(2, 0, 1)]

NettOnce == [descriptor |-> "nett", factors |-> Vec(0, 1, 2)]

PairRecords == {KlugOnce, KlugTwice, NettOnce}

\* the pairs of different records, each in one of its two orders
RecordPairs == {<<KlugOnce, KlugTwice>>, <<KlugOnce, NettOnce>>, <<KlugTwice, NettOnce>>}

\* the accumulator after r1 and then r2, starting from the current state
InOrderOf(r1, r2) == Apply(r2, Apply(r1, Here))

\* an accumulator with its sentiment sums blanked: the mappings, the match
\* counters, the not-found counters and the negation counter remain
CountsOf(A) ==
    [A EXCEPT !.st = [@ EXCEPT !.female_glean = GLEAN_INIT,
                               !.male_glean = GLEAN_INIT,
                               !.ud_glean = GLEAN_INIT]]

SameCounts(A, B) == CountsOf(A) = CountsOf(B)

\* the statistics with everything but the sentiment sums blanked
SumsOf(A) ==
    [A.st EXCEPT !.num_matches_descr = 0, !.glean_not_found = 0, !.num_neg = 0]

SameSums(A, B) == SumsOf(A) = SumsOf(B)

FreshSums(A) ==
    /\ A.st.female_glean = GLEAN_INIT
    /\ A.st.male_glean = GLEAN_INIT
    /\ A.st.ud_glean = GLEAN_INIT

\* C17: for any accumulator state and any two descriptor records, recording
\* the first and then the second yields the same mappings, match counters,
\* sentiment sums and not-found counters as recording them in the opposite
\* order.
C17_OrderDoesNotMatter ==
    \A r1 \in PairRecords, r2 \in PairRecords :
        InOrderOf(r1, r2) = InOrderOf(r2, r1)

\* C17 as the code has it: the order of two records never matters for the
\* mappings, the match counters and the not-found counters; it does not
\* matter for the sentiment sums either when they start at zero, but the sums
\* are floating-point sums and from other values the two orders can round
\* differently.
C17_CountsCommute ==
    \A p \in RecordPairs :
        /\ SameCounts(InOrderOf(p[1], p[2]), InOrderOf(p[2], p[1]))
        /\ FreshSums(Here)
              => SameSums(InOrderOf(p[1], p[2]), InOrderOf(p[2], p[1]))

\* a record has been added, and two further records exist whose two orders
\* agree on every count and differ in a sentiment sum
C17_Witness ==
    /\ pc = "add"
    /\ n >= 1
    /\ calls # <<>>
    /\ \E r1 \in PairRecords, r2 \in PairRecords :
          /\ SameCounts(InOrderOf(r1, r2), InOrderOf(r2, r1))
          /\ ~SameSums(InOrderOf(r1, r2), InOrderOf(r2, r1))


-----------------------------------------------------------------------------
(* C18 *)

WorkersDone == pc = "workers" /\ \A w \in Workers : wpc[w] = LastPos

\* the integer locations of a call: mapping entries, match counters and
\* not-found counters
CountCells(l) ==
    {CellsOf(l)[k] : k \in 1..Len(CellsOf(l))}
        \ {"female_glean", "male_glean", "ud_glean"}

Touches(w, cell, loc) ==
    cell \in CountCells(wargs[w].descriptor)
    /\ LocOf(cell, wargs[w].descriptor) = loc

\* the sum of the legs the two calls pass to a location
LegsPassed(cell, loc) ==
    (IF Touches(1, cell, loc) THEN LegOfCell(cell, wargs[1].factors) ELSE 0)
    + (IF Touches(2, cell, loc) THEN LegOfCell(cell, wargs[2].factors) ELSE 0)

\* C18: two workers run add_descriptor on one shared Statistics object with
\* their reads and writes interleaved.  When both have finished, a count is
\* smaller than the sum of the legs passed to it exactly when one worker
\* stored to it while the other held a value it had read from it before (an
\* increment is lost); a count that was not raced for holds the full sum.
C18_LostUpdate ==
    WorkersDone =>
        \A w \in Workers :
            \A cell \in CountCells(wargs[w].descriptor) :
                LET l   == wargs[w].descriptor
                    loc == LocOf(cell, l)
                IN  /\ ReadCell(cell, l) <= LegsPassed(cell, loc)
                    /\ (ReadCell(cell, l) < LegsPassed(cell, loc)) <=> (loc \in raced)

\* both workers recorded the same lemma and one increment of its female
\* count is lost
C18_Witness ==
    /\ WorkersDone
    /\ wargs[1].descriptor = wargs[2].descriptor
    /\ female_descriptors[wargs[1].descriptor]
          < wargs[1].factors.f + wargs[2].factors.f
    /\ statistics.num_matches_descr["DESCR:F"]
          = wargs[1].factors.f + wargs[2].factors.f


-----------------------------------------------------------------------------
(* C19 *)

\* the mapping m2 keeps every lemma of m with a count that is not smaller, and
\* holds natural numbers only
Grows(m, m2) ==
    /\ DOMAIN m \subseteq DOMAIN m2
    /\ \A l \in DOMAIN m : m2[l] >= m[l]
    /\ \A l \in DOMAIN m2 : m2[l] \in Nat

NatVec(v) == v.f \in Nat /\ v.m \in Nat /\ v.ud \in Nat

\* C19: in every step of a run (an iteration of parse_descriptors with its
\* add_descriptor calls, the start and the end of an article) each descriptor
\* mapping keeps the lemmas it has, no count decreases, every count is a
\* non-negative integer and so is every leg of a gender vector.
C19_NeverShrinks ==
    [][ /\ Grows(female_descriptors, female_descriptors')
        /\ Grows(male_descriptors, male_descriptors')
        /\ Grows(ud_descriptors, ud_descriptors')
        /\ NatVec(factors')
        /\ \A k \in 1..Len(calls') : NatVec(calls'[k].factors)
      ]_vars

\* an iteration has recorded a lemma while another lemma, recorded with a
\* gendered count by an earlier iteration, is still in the mappings
C19_Witness ==
    /\ pc = "parse"
    /\ Len(calls) >= 1
    /\ \E l \in DOMAIN female_descriptors :
          /\ female_descriptors[l] + male_descriptors[l] >= 1
          /\ \A k \in 1..Len(calls) : calls[k].descriptor # l

-----------------------------------------------------------------------------
(* C20 *)

\* the auxiliary a stands in a relative or object-complement relation to a
\* nominative NOUN/PROPN
RelativeHead(d, a) ==
    d[a].dep \in {"rc", "oc"} /\ NominativeNoun(d[d[a].head])

\* the children of the auxiliary a that can be the subject of the predicate
SubjectChildren(d, a) ==
    {c \in 1..Len(d) : /\ c # a
                       /\ d[c].head = a
                       /\ NominativeNoun(d[c])
                       /\ d[c].dep \in {"sb", "oc"}}

\* C20: for an ADV/VERB token that is predicate complement of an auxiliary:
\* when the auxiliary is a relative or object-complement clause of a nominative
\* NOUN/PROPN, that noun is the target whatever the children of the auxiliary
\* are and whether or not the noun has a gender; otherwise the target is the
\* first child of the auxiliary, in the order of the children, that is a
\* nominative NOUN/PROPN with relation sb or oc; with neither, the vector is
\* (0,0,0) and the token is recorded nowhere.
C20_PredicativeTarget ==
    [][ (Iteration /\ PredicativeShape(doc, idx)) =>
          LET a  == doc[idx].head
              Cs == SubjectChildren(doc, a)
          IN  /\ RelativeHead(doc, a) => target' = doc[a].head
              /\ (~RelativeHead(doc, a) /\ Cs # {}) =>
                    /\ target' \in Cs
                    /\ \A c \in Cs : target' <= c
              /\ (~RelativeHead(doc, a) /\ Cs = {}) =>
                    /\ target' = 0
                    /\ factors' = ZeroVec
                    /\ calls' = <<>>
                    /\ UNCHANGED Recorded
      ]_vars

\* "klug" has just been parsed in a relative clause whose auxiliary has a
\* female subject, and the target is the noun the clause hangs on, which has no
\* gender: nothing is recorded
C20_Witness ==
    /\ pc = "parse"
    /\ idx > 1
    /\ PredicativeShape(doc, idx - 1)
    /\ RelativeHead(doc, doc[idx - 1].head)
    /\ target = doc[doc[idx - 1].head].head
    /\ doc[target].gender = None /\ doc[target].ent = ""
    /\ \E c \in SubjectChildren(doc, doc[idx - 1].head) : doc[c].gender = "PRN:F"
    /\ factors = ZeroVec
    /\ calls = <<>>


-----------------------------------------------------------------------------
(* C21 *)

\* the verb v is object complement of an adverb or auxiliary
ComplementOfAux(d, v) == d[v].dep = "oc" /\ d[d[v].head].pos \in {"ADV", "AUX"}

\* the manner / object-complement adverbs and auxiliaries below the verb v
AdverbChildren(d, v) ==
    {c \in 1..Len(d) : /\ c # v
                       /\ d[c].head = v
                       /\ d[c].dep \in {"mo", "oc"}
                       /\ d[c].pos \in {"ADV", "AUX"}}

\* no coordination hangs below the token a
Uncoordinated(d, a) ==
    \A c \in 1..Len(d) : (c # a /\ d[c].head = a) => d[c].dep \notin {"cj", "cd"}

\* the descriptor recorded for the verb v: particle and verb lemma
VerbLemma(d, v) ==
    (IF SvpChildren(d, v) = {} THEN "" ELSE lower(d[Max(SvpChildren(d, v))].lemma))
        \o lower(d[v].lemma)

\* C21: in the subject-verb pattern with a subject whose vector is not zero,
\* the auxiliary descriptor is the head of the verb when the verb is object
\* complement of an ADV/AUX, and otherwise the first manner / object-complement
\* ADV/AUX child of the verb; it is the last descriptor recorded in the
\* iteration, with the subject's vector, and when nothing is coordinated with
\* it the iteration records the verb and this one auxiliary descriptor only.
\* Without such a head or child the iteration records no auxiliary descriptor.
C21_AuxiliaryDescriptor ==
    [][ (Iteration /\ SubjectShape(doc, idx) /\ ~IsZero(factors')) =>
          LET v  == doc[idx].head
              Cs == AdverbChildren(doc, v)
              a  == IF ComplementOfAux(doc, v) THEN doc[v].head
                    ELSE IF Cs # {} THEN Min(Cs) ELSE 0
              first == [descriptor |-> VerbLemma(doc, v), factors |-> factors']
          IN  /\ calls' # <<>>
              /\ calls'[1] = first
              /\ a # 0 =>
                    /\ Len(calls') >= 2
                    /\ calls'[Len(calls')]
                          = [descriptor |-> lower(doc[a].lemma), factors |-> factors']
                    /\ Uncoordinated(doc, a) => Len(calls') = 2
              /\ (a = 0 /\ Uncoordinated(doc, v)) => Len(calls') = 1
      ]_vars

\* the verb is object complement of an auxiliary and has a manner adverb of
\* its own: the auxiliary is recorded, the adverb is not
C21_Witness ==
    /\ pc = "parse"
    /\ idx > 1
    /\ SubjectShape(doc, idx - 1)
    /\ ComplementOfAux(doc, doc[idx - 1].head)
    /\ AdverbChildren(doc, doc[idx - 1].head) # {}
    /\ calls = <<[descriptor |-> "laufen", factors |-> Vec(1, 0, 0)],
                 [descriptor |-> "sein", factors |-> Vec(1, 0, 0)]>>
    /\ female_descriptors = [l \in {"laufen", "sein"} |-> 1]


-----------------------------------------------------------------------------
(* C22 *)

\* the children of tk at which the walk can go on: nominative NOUN/PROPN
\* conjuncts and CCONJ links
Followable(d, tk) ==
    {c \in 1..Len(d) : /\ c # tk
                       /\ d[c].head = tk
                       /\ (ConjunctShape(d[c]) \/ LinkShape(d[c]))}

\* the children of tk in conjunct relation that are not nominative or not
\* NOUN/PROPN
OtherConjuncts(d, tk) ==
    {c \in 1..Len(d) : c # tk /\ d[c].head = tk /\ d[c].dep = "cj"
                       /\ ~NominativeNoun(d[c])}

\* C22: the walk of obtain_gender_occurrences goes on only at a conjunct child
\* that is a nominative NOUN/PROPN or at a CCONJ link.  A target whose conjunct
\* children are all of another part of speech or case returns its own leg
\* alone, whatever hangs below them; a followed conjunct adds its leg, and its
\* own conjunct is reached from it; a followed CCONJ adds nothing, and the
\* conjunct below it adds its leg.
C22_ConjunctEligibility ==
    (pc = "returned" /\ target # 0) =>
        LET own == LegOf(doc[target])
            R1  == Followable(doc, target)
        IN  /\ R1 = {} => factors = own
            /\ R1 # {} =>
                 LET c  == Min(R1)
                     R2 == Followable(doc, c)
                 IN  /\ ConjunctShape(doc[c]) =>
                          /\ Leq(AddVec(own, LegOf(doc[c])), factors)
                          /\ R2 = {} => factors = AddVec(own, LegOf(doc[c]))
                     /\ LinkShape(doc[c]) =>
                          /\ R2 = {} => factors = own
                          /\ (R2 # {} /\ ConjunctShape(doc[Min(R2)])) =>
                                Leq(AddVec(own, LegOf(doc[Min(R2)])), factors)
                          /\ (R2 # {} /\ ConjunctShape(doc[Min(R2)])
                                /\ Followable(doc, Min(R2)) = {}) =>
                                factors = AddVec(own, LegOf(doc[Min(R2)]))

\* a female target with an accusative conjunct tagged male, below which hangs
\* a nominative conjunct tagged male: neither is counted
C22_Witness ==
    /\ pc = "returned"
    /\ target = 1
    /\ Len(doc) = 3
    /\ doc[1].gender = "PRN:F"
    /\ doc[2].head = 1 /\ doc[2].dep = "cj" /\ doc[2].pos = "NOUN"
    /\ doc[2].case = {"Acc"} /\ doc[2].gender = "PRN:M"
    /\ doc[3].head = 2 /\ ConjunctShape(doc[3]) /\ doc[3].gender = "PRN:M"
    /\ factors = Vec(1, 0, 0)


-----------------------------------------------------------------------------
(* C23 *)

\* C23: when a descriptor is recorded, every VERB conjunct reached from the
\* primary descriptor or from the captured auxiliary descriptor is recorded
\* under its particle (if it has one) directly followed by its lower-cased
\* lemma, and each manner / object-complement ADV/AUX child of that verb is
\* recorded under its own lower-cased lemma, all with the vector of the primary
\* descriptor.
C23_NestedVerbConjunct ==
    (pc = "parse" /\ idx > 1 /\ calls # <<>>) =>
        \A c \in ReachedConjuncts(doc, pattern_descriptor(doc, idx - 1))
                 \cup (IF pattern_adv(doc, idx - 1) # 0
                       THEN ReachedConjuncts(doc, pattern_adv(doc, idx - 1))
                       ELSE {}) :
            doc[c].pos = "VERB" =>
                /\ \E k \in 1..Len(calls) :
                      calls[k] = [descriptor |-> VerbLemma(doc, c), factors |-> factors]
                /\ \A a \in AdverbChildren(doc, c) :
                      \E k \in 1..Len(calls) :
                          calls[k] = [descriptor |-> lower(doc[a].lemma),
                                      factors |-> factors]


-----------------------------------------------------------------------------
(* C24 *)

Below(d, t) == {c \in 1..Len(d) : c # t /\ d[c].head = t}

\* the depth of the tree below the token t: the longest path down from t
RECURSIVE Height(_, _)
Height(d, t) ==
    IF Below(d, t) = {} THEN 0
    ELSE LET hs == {Height(d, c) : c \in Below(d, t)}
         IN  1 + CHOOSE x \in hs : \A y \in hs : y <= x

Walking == pc \in {"walk_targets", "walk_descriptors", "returned"}

\* C24: each of the two coordination walks, started at any token of any tree,
\* is always at a token that lies as many levels below the start as the walk
\* has made moves, so it never makes more moves than the tree is deep below
\* the start, and it leaves its loop.
C24_WalksTerminate ==
    /\ [](Walking =>
            /\ walk.steps + Height(doc, walk.tk) <= Height(doc, target)
            /\ walk.steps <= Height(doc, target))
    /\ <>(pc = "returned")

\* a walk that went down a tree of three tokens to its deepest token
C24_Witness ==
    /\ pc = "returned"
    /\ Len(doc) = 3
    /\ target = 1
    /\ walk.tk = 3
    /\ walk.steps = 2
    /\ Height(doc, 1) = 2
    /\ ~walk.new_children


-----------------------------------------------------------------------------
(* C25 *)

\* the four person labels main reports
KnownPerLabels == {"PER:weiblich", "PER:männlich", "PER:NA", "PER:AMB"}

EntitiesLabelled(d, g) == Cardinality({i \in 1..Len(d) : d[i].ent = g})

\* C25: when a paragraph is analysed, count_per raises the entry of each of
\* the four known person labels in num_matches_per by the number of entities
\* of the paragraph that carry this label, and when the article is finished
\* main reads the four entries and goes on to the next article.
C25_CountPer ==
    [][ /\ (pc = "analyze" /\ pc' = "parse") =>
              \A g \in KnownPerLabels :
                  /\ g \in DOMAIN statistics'.num_matches_per
                  /\ statistics'.num_matches_per[g]
                        = statistics.num_matches_per[g] + EntitiesLabelled(doc', g)
        /\ (pc = "analyze" /\ pc' # "parse") => pc' = "load"
      ]_vars


-----------------------------------------------------------------------------
(* C26 *)

GleanSums == <<statistics.female_glean, statistics.male_glean, statistics.ud_glean>>

\* C26: no add_descriptor call changes both the sentiment sums and the
\* not-found counters, and in an accumulator that started at zero every
\* not-found counter is at most the match counter of its gender bucket.
C26_HitOrMiss ==
    /\ [][ ~(GleanSums' # GleanSums
             /\ statistics'.glean_not_found # statistics.glean_not_found) ]_vars
    /\ [](\A k \in DescrKeys :
             statistics.glean_not_found[k] <= statistics.num_matches_descr[k])

\* after a hit and a miss: one of two female occurrences was not found
C26_Witness ==
    /\ pc = "add"
    /\ n = 2
    /\ statistics.num_matches_descr["DESCR:F"] = 2
    /\ statistics.glean_not_found["DESCR:F"] = 1
    /\ statistics.female_glean = <<3, 5, 2, 1>>
    /\ "klug" \in DOMAIN female_descriptors
    /\ "nett" \in DOMAIN female_descriptors


-----------------------------------------------------------------------------
(* C27 *)

\* neither a gender tag nor one of the four recognised person labels
NoRecognisedGender(t) ==
    t.gender = None /\ t.ent \notin {"PER:weiblich", "PER:männlich", "PER:NA", "PER:AMB"}

\* c is the first conjunct of the chain of t: directly below t, or below the
\* CCONJ that is the first coordination child of t
FirstConjunct(d, t, c) ==
    \/ ChainStep(d, t, c)
    \/ \E k \in 1..Len(d) :
          /\ k # t /\ d[k].head = t /\ LinkShape(d[k])
          /\ \A j \in 1..(k - 1) :
                (j # t /\ d[j].head = t) => ~(ConjunctShape(d[j]) \/ LinkShape(d[j]))
          /\ ChainStep(d, k, c)

\* C27: when the target of a descriptor has neither a gender tag nor a
\* recognised person label and the first conjunct of its chain is a nominative
\* noun that stands for a gender, the vector holds the leg of that conjunct,
\* so it is not zero, and the descriptor is recorded with this vector.
C27_UntaggedTargetWalks ==
    [][ (Iteration /\ DescriptorShape(doc, idx) /\ target' # 0) =>
          \A c \in 1..Len(doc) :
              (/\ NoRecognisedGender(doc[target'])
               /\ FirstConjunct(doc, target', c)
               /\ ~IsZero(LegOf(doc[c]))) =>
                  /\ Leq(LegOf(doc[c]), factors')
                  /\ calls' # <<>>
                  /\ calls'[1].factors = factors'
                  /\ calls'[1].descriptor \in DOMAIN female_descriptors'
                  /\ SumCalls(calls') # ZeroVec
      ]_vars

\* Tisch und Lehrer stehen: the subject Tisch has no gender, its conjunct
\* Lehrer is male, and the verb is recorded with (0,1,0)
C27_Witness ==
    /\ pc = "parse"
    /\ idx > 1
    /\ SubjectShape(doc, idx - 1)
    /\ target = idx - 1
    /\ NoGenderInfo(doc[target])
    /\ \E c \in 1..Len(doc) : FirstConjunct(doc, target, c) /\ doc[c].gender = "PRN:M"
    /\ factors = Vec(0, 1, 0)
    /\ calls = <<[descriptor |-> "stehen", factors |-> Vec(0, 1, 0)]>>
    /\ male_descriptors = [l \in {"stehen"} |-> 1]


-----------------------------------------------------------------------------
(* C28 *)

\* C28: what an iteration of parse_descriptors records depends on its own
\* token only.  An adjective or predicative descriptor is recorded under its
\* bare lower-cased lemma, and when nothing is coordinated with it no other
\* lemma is recorded with it, whatever particle or auxiliary descriptor an
\* earlier subject-verb iteration of the paragraph had found; a verb is
\* recorded with the particle of its own children only.
C28_NoLeak ==
    [][ (Iteration /\ DescriptorShape(doc, idx) /\ calls' # <<>>) =>
          /\ (AdjectiveShape(doc, idx) \/ PredicativeShape(doc, idx)) =>
                /\ calls'[1] = [descriptor |-> lower(doc[idx].lemma),
                                factors |-> factors']
                /\ Uncoordinated(doc, idx) => Len(calls') = 1
          /\ SubjectShape(doc, idx) =>
                /\ calls'[1].descriptor = VerbLemma(doc, doc[idx].head)
                /\ (/\ Uncoordinated(doc, doc[idx].head)
                    /\ ~ComplementOfAux(doc, doc[idx].head)
                    /\ AdverbChildren(doc, doc[idx].head) = {}) => Len(calls') = 1
      ]_vars

\* an adjective is recorded alone and without prefix after a subject-verb
\* iteration of the same paragraph had found a particle and an adverb
C28_Witness ==
    /\ pc = "parse"
    /\ idx > 2
    /\ AdjectiveShape(doc, idx - 1)
    /\ calls = <<[descriptor |-> "klug", factors |-> Vec(1, 0, 0)]>>
    /\ SubjectShape(doc, 1)
    /\ SvpChildren(doc, doc[1].head) # {}
    /\ AdverbChildren(doc, doc[1].head) # {}
    /\ male_descriptors["aufstehen"] = 1
    /\ male_descriptors["schnell"] = 1
    /\ female_descriptors["klug"] = 1


-----------------------------------------------------------------------------
(* C29 *)

Zeros == <<0, 0, 0, 0>>

\* C29: the list GLEAN_INIT holds four zeros at every moment of a run, so
\* every Statistics.GLEAN() starts with three all-zero sums; an add_descriptor
\* call for a lemma of the lexicon gives every sum the value computed from its
\* own previous value and its own leg, leaves the three fields bound to three
\* different lists, none of them GLEAN_INIT, and a call for another lemma
\* leaves the sums alone.
C29_FreshSums ==
    /\ [](heap.objs[InitObj] = Zeros)
    /\ [][ /\ (pc = "load" /\ pc' = "analyze") =>
                 \A g \in GleanFields : Deref(heap', g) = Zeros
           /\ (pc = "analyze" /\ calls' # calls) =>
                 LET c == calls'[Len(calls')]
                 IN  IF c.descriptor \in DOMAIN glean_norm_values
                     THEN /\ Deref(heap', "female_glean")
                               = Scaled(Deref(heap, "female_glean"), c.factors.f,
                                        c.descriptor)
                          /\ Deref(heap', "male_glean")
                               = Scaled(Deref(heap, "male_glean"), c.factors.m,
                                        c.descriptor)
                          /\ Deref(heap', "ud_glean")
                               = Scaled(Deref(heap, "ud_glean"), c.factors.ud,
                                        c.descriptor)
                          /\ Cardinality({heap'[g] : g \in GleanFields}
                                          \cup {InitObj}) = 4
                     ELSE \A g \in GleanFields : Deref(heap', g) = Deref(heap, g)
         ]_vars

\* after add_descriptor("klug", (1,0,0)): the female sum has changed, the male
\* and undetermined sums are zero in lists of their own, GLEAN_INIT is zero
C29_Witness ==
    /\ pc = "analyze"
    /\ Len(calls) = 1
    /\ calls[1] = [descriptor |-> "klug", factors |-> Vec(1, 0, 0)]
    /\ Deref(heap, "female_glean") = <<3, 5, 2, 1>>
    /\ Deref(heap, "male_glean") = Zeros
    /\ Deref(heap, "ud_glean") = Zeros
    /\ heap.male_glean # heap.ud_glean
    /\ heap.male_glean # InitObj
    /\ heap.objs[InitObj] = Zeros


-----------------------------------------------------------------------------
(* C30 *)

\* main goes from one article to the next without having analysed it
Skipped == pc = "load" /\ pc' = "load" /\ n' = n + 1

\* C30: an article for which load_text returns nothing changes only the
\* position in the list of articles: the current Statistics object, the list
\* of rows, the Statistics object carried forward and every mapping it shares
\* are the same before and after.
C30_SkipChangesNothing ==
    [][ Skipped =>
          /\ statistics' = statistics
          /\ stats_list' = stats_list
          /\ prev_stats' = prev_stats
          /\ female_descriptors' = female_descriptors
          /\ male_descriptors' = male_descriptors
          /\ ud_descriptors' = ud_descriptors
          /\ per_dicts' = per_dicts
          /\ prn_dicts' = prn_dicts
          /\ fed' = fed
      ]_vars

\* an article has been skipped and the next one is being analysed with
\* counters that start at zero and no row so far
C30_Witness ==
    /\ n = 1
    /\ pc = "parse"
    /\ stats_list = <<>>
    /\ prev_stats = NewStatistics
    /\ statistics.token_num = Len(doc)
    /\ Len(doc) > 0


====
